---- MODULE Spec2Model ----
(***************************************************************************)
(* Layout inference of the Figma-to-HTML converter: Parser (parseNode,     *)
(* extractLayout, regroupByVisualContainment) and LayoutEngine             *)
(* (generateLayoutCSS).                                                    *)
(*                                                                         *)
(* Nodes live in an arena: a file is a sequence of node records and a      *)
(* children list is a sequence of indices into it, so that moving a node   *)
(* between parents is what it is in the source: pushing a reference onto   *)
(* another node's children array.  Pixel inputs are integers; every value  *)
(* the code rounds to two decimals is kept in hundredths of a pixel.       *)
(***************************************************************************)
EXTENDS Integers, Sequences, FiniteSets, TLC

VARIABLES figma, tree, prev, css, out, pc,
          logger, requests, conversionCache, clock, sweepAt,
          retry, transformedNode, declarations

\* the parser and layout engine, the /convert and /download routes with the
\* module-level logger and cache, the Figma client, the generators
pipelineVars == <<figma, tree, prev, css, pc>>
serverVars == <<logger, requests, conversionCache, clock, sweepAt>>
clientVars == <<retry>>
generatorVars == <<transformedNode, declarations>>

vars == <<pipelineVars, out, serverVars, clientVars, generatorVars>>

\* no file in the pipeline
PipelineIdle ==
  figma = <<>> /\ tree = <<>> /\ prev = <<>> /\ css = <<>> /\ pc = "idle"

\* the module state of the routes when the server starts: an empty logger
\* and an empty cache, no request
\* Times are in minutes. The sweep runs every 5 * 60 * 1000 ms and drops
\* what is older than 60 * 60 * 1000 ms.
SweepEvery == 5
MaxAge == 60

ServerIdle ==
  /\ logger = [errors |-> <<>>, warnings |-> <<>>]
  /\ requests = <<>>
  /\ conversionCache = <<>>
  /\ sweepAt = SweepEvery
  /\ clock = 0

ClientIdle == retry = <<>>

GeneratorIdle == transformedNode = <<>> /\ declarations = <<>>

\* ---------------------------------------------------------------- bounds
MaxKids == 3
MaxGrand == 2
MaxLayoutKids == 3
MaxGaps == 4
MaxAlignKids == 4
MaxRequests == 2
MaxPages == 2
MaxFrames == 2
MaxDeclarations == 3
MaxClock == 70

\* retryRequest(requestFn, maxRetries = 3)
MaxAttempts == 3

\* ------------------------------------------------------- small utilities
Abs(v) == IF v < 0 THEN -v ELSE v
Max2(a, b) == IF a > b THEN a ELSE b
Min2(a, b) == IF a < b THEN a ELSE b

\* Math.round(num / den * 100), den > 0: the value in hundredths
Round100(num, den) == (200 * num + den) \div (2 * den)

\* delete obj[k]
Delete(obj, k) == [p \in DOMAIN obj \ {k} |-> obj[p]]

\* obj[k] = v
Put(obj, k, v) == (k :> v) @@ obj

Has(obj, k) == k \in DOMAIN obj

RECURSIVE SumSeq(_)
SumSeq(s) == IF s = <<>> THEN 0 ELSE Head(s) + SumSeq(Tail(s))

\* Array.prototype.sort with comparator a[key] - b[key] (stable)
RECURSIVE InsertBy(_, _, _)
InsertBy(s, e, key) ==
  IF s = <<>> THEN <<e>>
  ELSE IF e[key] < Head(s)[key] THEN <<e>> \o s
       ELSE <<Head(s)>> \o InsertBy(Tail(s), e, key)

RECURSIVE SortBy(_, _)
SortBy(s, key) ==
  IF s = <<>> THEN <<>>
  ELSE InsertBy(SortBy(SubSeq(s, 1, Len(s) - 1), key), s[Len(s)], key)

RECURSIVE InsertNum(_, _)
InsertNum(s, e) ==
  IF s = <<>> THEN <<e>>
  ELSE IF e < Head(s) THEN <<e>> \o s
       ELSE <<Head(s)>> \o InsertNum(Tail(s), e)

RECURSIVE SortNum(_)
SortNum(s) ==
  IF s = <<>> THEN <<>>
  ELSE InsertNum(SortNum(SubSeq(s, 1, Len(s) - 1)), s[Len(s)])

\* ------------------------------------------------------------ data model
Box(x, y, w, h) == [defined |-> TRUE, x |-> x, y |-> y, width |-> w, height |-> h]
NoBox == [defined |-> FALSE, x |-> 0, y |-> 0, width |-> 0, height |-> 0]
ZeroBounds == [x |-> 0, y |-> 0, width |-> 0, height |-> 0]
BoundsOf(b) == [x |-> b.x, y |-> b.y, width |-> b.width, height |-> b.height]

NoConstraints == [defined |-> FALSE, horizontal |-> "LEFT", vertical |-> "TOP"]

\* name.toLowerCase().includes('indicator'), over the names the inputs use
ToLowerCase(name) ==
  CASE name = "Frame" -> "frame"
    [] name = "Line 1" -> "line 1"
    [] name = "Home Indicator" -> "home indicator"
    [] name = "indicator" -> "indicator"
    [] OTHER -> name

IncludesIndicator(s) == s \in {"home indicator", "indicator"}

\* A FigmaNode with the fields the parser reads
FNode(name, box, fills, mode) ==
  [name |-> name, absoluteBoundingBox |-> box, fills |-> fills,
   layoutMode |-> mode, itemSpacing |-> 0,
   paddingTop |-> 0, paddingRight |-> 0, paddingBottom |-> 0, paddingLeft |-> 0,
   primaryAxisAlignItems |-> "undefined", counterAxisAlignItems |-> "undefined",
   constraints |-> NoConstraints, children |-> <<>>]

Visible == [visible |-> TRUE]
Hidden == [visible |-> FALSE]

\* ------------------------------------------------ Parser: layout inference
\* children.filter(c => c.absoluteBoundingBox)
WithBounds(boxes) == SelectSeq(boxes, LAMBDA b : b.defined)

\* a deliberately wrong variant: no overlap is tolerated
StackedNoTolerance(sorted, pos, size) ==
  \A i \in 1..(Len(sorted) - 1) :
     ~(sorted[i + 1][pos] < sorted[i][pos] + sorted[i][size])

\* the loop of detectChildArrangement over one axis: no consecutive pair of
\* the sorted boxes overlaps by more than 5
Stacked(sorted, pos, size) ==
  \A i \in 1..(Len(sorted) - 1) :
     ~(sorted[i + 1][pos] < sorted[i][pos] + sorted[i][size] - 5)

detectChildArrangement(boxes) ==
  LET childrenWithBounds == WithBounds(boxes) IN
  IF Len(childrenWithBounds) < 2 THEN "complex"
  ELSE IF Stacked(SortBy(childrenWithBounds, "y"), "y", "height") THEN "vertical"
  ELSE IF Stacked(SortBy(childrenWithBounds, "x"), "x", "width") THEN "horizontal"
  ELSE "complex"

\* a deliberately wrong variant: the node's own bounding box is not required
determineLayoutStrategyAnyBox(node, boxes) ==
  IF node.layoutMode # "undefined" /\ node.layoutMode # "NONE" THEN "flexbox"
  ELSE IF Len(boxes) > 0
       THEN IF detectChildArrangement(boxes) \in {"vertical", "horizontal"}
            THEN "flexbox"
            ELSE "absolute"
       ELSE "static"

determineLayoutStrategy(node, boxes) ==
  IF node.layoutMode # "undefined" /\ node.layoutMode # "NONE" THEN "flexbox"
  ELSE IF Len(boxes) > 0 /\ node.absoluteBoundingBox.defined
       THEN IF detectChildArrangement(boxes) \in {"vertical", "horizontal"}
            THEN "flexbox"
            ELSE "absolute"
       ELSE "static"

\* the non-negative gaps between consecutive boxes of the sorted list
GapsOf(sorted, pos, size) ==
  LET raw == [i \in 1..(Len(sorted) - 1) |->
                sorted[i + 1][pos] - (sorted[i][pos] + sorted[i][size])]
  IN SelectSeq(raw, LAMBDA g : g >= 0)

\* a deliberately wrong variant: the median is the lower middle sample
calculateChildGapsLowerMedian(boxes, arrangement) ==
  IF Len(boxes) < 2 THEN 0
  ELSE
    LET childrenWithBounds == WithBounds(boxes)
        gaps == CASE arrangement = "vertical" ->
                       GapsOf(SortBy(childrenWithBounds, "y"), "y", "height")
                  [] arrangement = "horizontal" ->
                       GapsOf(SortBy(childrenWithBounds, "x"), "x", "width")
                  [] OTHER -> <<>>
    IN IF Len(gaps) = 0 THEN 0
       ELSE IF Len(gaps) = 1 THEN Round100(gaps[1], 1)
       ELSE
         LET sortedGaps == SortNum(gaps)
             median == sortedGaps[(Len(sortedGaps) + 1) \div 2]
             filteredGaps == SelectSeq(sortedGaps, LAMBDA g : 2 * g <= 5 * median)
             gapsToUse == IF 2 * Len(filteredGaps) >= Len(gaps)
                          THEN filteredGaps ELSE gaps
             preciseGap == Round100(SumSeq(gapsToUse), Len(gapsToUse))
         IN IF preciseGap < 0 THEN 0
            ELSE IF preciseGap > 20000 THEN 2400
            ELSE preciseGap

\* averageGap in hundredths of a pixel
calculateChildGaps(boxes, arrangement) ==
  IF Len(boxes) < 2 THEN 0
  ELSE
    LET childrenWithBounds == WithBounds(boxes)
        gaps == CASE arrangement = "vertical" ->
                       GapsOf(SortBy(childrenWithBounds, "y"), "y", "height")
                  [] arrangement = "horizontal" ->
                       GapsOf(SortBy(childrenWithBounds, "x"), "x", "width")
                  [] OTHER -> <<>>
    IN IF Len(gaps) = 0 THEN 0
       ELSE IF Len(gaps) = 1 THEN Round100(gaps[1], 1)
       ELSE
         LET sortedGaps == SortNum(gaps)
             median == sortedGaps[(Len(sortedGaps) \div 2) + 1]
             filteredGaps == SelectSeq(sortedGaps, LAMBDA g : 2 * g <= 5 * median)
             gapsToUse == IF 2 * Len(filteredGaps) >= Len(gaps)
                          THEN filteredGaps ELSE gaps
             preciseGap == Round100(SumSeq(gapsToUse), Len(gapsToUse))
         IN IF preciseGap < 0 THEN 0
            ELSE IF preciseGap > 20000 THEN 2400
            ELSE preciseGap

RECURSIVE MinNum(_)
MinNum(s) == IF Len(s) = 1 THEN s[1] ELSE Min2(s[1], MinNum(Tail(s)))

RECURSIVE MaxNum(_)
MaxNum(s) == IF Len(s) = 1 THEN s[1] ELSE Max2(s[1], MaxNum(Tail(s)))

\* a deliberately wrong variant: the distances are not floored at 0
calculatePaddingUnfloored(node, boxes) ==
  LET parentBounds == node.absoluteBoundingBox
      childrenWithBounds == WithBounds(boxes)
      n == Len(childrenWithBounds)
      b(i) == childrenWithBounds[i]
  IN IF ~parentBounds.defined \/ Len(boxes) = 0 \/ n = 0
     THEN <<>>
     ELSE [top |-> Round100(MinNum([i \in 1..n |-> b(i).y]) - parentBounds.y, 1),
           right |-> Round100((parentBounds.x + parentBounds.width)
                                - MaxNum([i \in 1..n |-> b(i).x + b(i).width]), 1),
           bottom |-> Round100((parentBounds.y + parentBounds.height)
                                 - MaxNum([i \in 1..n |-> b(i).y + b(i).height]), 1),
           left |-> Round100(MinNum([i \in 1..n |-> b(i).x]) - parentBounds.x, 1)]

\* a record of hundredths, or the empty record for null
calculatePadding(node, boxes) ==
  LET parentBounds == node.absoluteBoundingBox
      childrenWithBounds == WithBounds(boxes)
  IN IF ~parentBounds.defined \/ Len(boxes) = 0 \/ Len(childrenWithBounds) = 0
     THEN <<>>
     ELSE
       LET n == Len(childrenWithBounds)
           b(i) == childrenWithBounds[i]
           minX == MinNum([i \in 1..n |-> b(i).x])
           minY == MinNum([i \in 1..n |-> b(i).y])
           maxX == MaxNum([i \in 1..n |-> b(i).x + b(i).width])
           maxY == MaxNum([i \in 1..n |-> b(i).y + b(i).height])
       IN [top |-> Max2(0, Round100(minY - parentBounds.y, 1)),
           right |-> Max2(0, Round100((parentBounds.x + parentBounds.width) - maxX, 1)),
           bottom |-> Max2(0, Round100((parentBounds.y + parentBounds.height) - maxY, 1)),
           left |-> Max2(0, Round100(minX - parentBounds.x, 1))]

\* the three tallies of detectAlignment on the cross axis (pos, size)
Tally(parentBounds, cwb, pos, size) ==
  LET centered(b) == Abs((2 * b[pos] + b[size])
                         - (2 * parentBounds[pos] + parentBounds[size])) < 4
      nearStart(b) == ~centered(b) /\ Abs(b[pos] - parentBounds[pos]) < 5
      nearEnd(b) == /\ ~centered(b) /\ ~(Abs(b[pos] - parentBounds[pos]) < 5)
                    /\ Abs((b[pos] + b[size])
                           - (parentBounds[pos] + parentBounds[size])) < 5
  IN [center |-> Len(SelectSeq(cwb, centered)),
      start |-> Len(SelectSeq(cwb, nearStart)),
      end |-> Len(SelectSeq(cwb, nearEnd))]

\* a deliberately wrong variant: the threshold is 0.6 whatever the number of
\* children
CrossAxisOneThreshold(parentBounds, cwb, pos, size) ==
  LET t == Tally(parentBounds, cwb, pos, size)
      total == Len(cwb)
      meets(count) == 10 * count >= 6 * total
      allFull == \A i \in 1..Len(cwb) :
                    Abs(cwb[i][size] - parentBounds[size]) < 10
  IN IF meets(t.center) THEN "center"
     ELSE IF meets(t.start) THEN "flex-start"
     ELSE IF meets(t.end) THEN "flex-end"
     ELSE IF t.center > t.start /\ t.center > t.end THEN "center"
     ELSE IF t.start > t.end THEN "flex-start"
     ELSE IF t.end > t.start THEN "flex-end"
     ELSE IF allFull THEN "stretch" ELSE "flex-start"

\* the alignItems cascade shared by both arrangements; threshold is 0.6 for
\* three or more boxed children and 0.5 otherwise
CrossAxis(parentBounds, cwb, pos, size) ==
  LET t == Tally(parentBounds, cwb, pos, size)
      total == Len(cwb)
      meets(count) == IF total >= 3 THEN 10 * count >= 6 * total
                      ELSE 2 * count >= total
      allFull == \A i \in 1..Len(cwb) :
                    Abs(cwb[i][size] - parentBounds[size]) < 10
  IN IF meets(t.center) THEN "center"
     ELSE IF meets(t.start) THEN "flex-start"
     ELSE IF meets(t.end) THEN "flex-end"
     ELSE IF t.center > t.start /\ t.center > t.end THEN "center"
     ELSE IF t.start > t.end THEN "flex-start"
     ELSE IF t.end > t.start THEN "flex-end"
     ELSE IF allFull THEN "stretch" ELSE "flex-start"

JustifyVertical(parentBounds, cwb) ==
  LET sortedByY == SortBy(cwb, "y")
      firstChild == sortedByY[1]
      lastChild == sortedByY[Len(sortedByY)]
      topGap == firstChild.y - parentBounds.y
      bottomGap == (parentBounds.y + parentBounds.height)
                   - (lastChild.y + lastChild.height)
      gapDifference == Abs(topGap - bottomGap)
      totalGap == topGap + bottomGap
      contentHeight == (lastChild.y + lastChild.height) - firstChild.y
      parentHeight == parentBounds.height
  IN IF 10 * contentHeight > 8 * parentHeight THEN "flex-start"
     ELSE IF totalGap > 0 /\ 100 * gapDifference < 15 * totalGap THEN "center"
     ELSE IF topGap < 40 THEN "flex-start"
     ELSE IF bottomGap < 40 THEN "flex-end"
     ELSE IF 10 * topGap < 7 * bottomGap THEN "flex-start"
     ELSE IF 10 * bottomGap < 7 * topGap THEN "flex-end"
     ELSE "flex-start"

\* "undefined" when no branch assigns justifyContent
JustifyHorizontal(parentBounds, cwb) ==
  LET sortedByX == SortBy(cwb, "x")
      firstChild == sortedByX[1]
      lastChild == sortedByX[Len(sortedByX)]
      leftGap == firstChild.x - parentBounds.x
      rightGap == (parentBounds.x + parentBounds.width)
                  - (lastChild.x + lastChild.width)
      n == Len(cwb)
      totalChildWidth == SumSeq([i \in 1..n |-> cwb[i].width])
      totalGapSpace == parentBounds.width - totalChildWidth
      \* |gap - totalGapSpace / (n + 1)| < 10, cleared of the division
      nearAverage(gap) == Abs((n + 1) * gap - totalGapSpace) < 10 * (n + 1)
  IN IF Abs(leftGap - rightGap) < 20 THEN "center"
     ELSE IF leftGap < 20 THEN "flex-start"
     ELSE IF rightGap < 20 THEN "flex-end"
     ELSE IF n >= 2 /\ nearAverage(leftGap) /\ nearAverage(rightGap)
          THEN "space-between"
          ELSE "undefined"

\* the result object: only the keys the code assigns
detectAlignment(node, boxes, arrangement) ==
  LET parentBounds == node.absoluteBoundingBox
      cwb == WithBounds(boxes)
  IN IF ~parentBounds.defined \/ Len(boxes) = 0 \/ Len(cwb) = 0 THEN <<>>
     ELSE IF arrangement = "vertical"
       THEN [alignItems |-> CrossAxis(parentBounds, cwb, "x", "width"),
             justifyContent |-> JustifyVertical(parentBounds, cwb)]
     ELSE IF arrangement = "horizontal"
       THEN LET j == JustifyHorizontal(parentBounds, cwb)
                a == [alignItems |-> CrossAxis(parentBounds, cwb, "y", "height")]
            IN IF j = "undefined" THEN a ELSE Put(a, "justifyContent", j)
     ELSE <<>>

\* a deliberately wrong variant: the SPACE_BETWEEN entry of the map is missing
mapPrimaryAxisAlignmentNoSpaceBetween(alignment) ==
  CASE alignment = "MIN" -> "flex-start"
    [] alignment = "CENTER" -> "center"
    [] alignment = "MAX" -> "flex-end"
    [] OTHER -> "flex-start"

mapPrimaryAxisAlignment(alignment) ==
  CASE alignment = "MIN" -> "flex-start"
    [] alignment = "CENTER" -> "center"
    [] alignment = "MAX" -> "flex-end"
    [] alignment = "SPACE_BETWEEN" -> "space-between"
    [] OTHER -> "flex-start"

mapCounterAxisAlignment(alignment) ==
  CASE alignment = "MIN" -> "flex-start"
    [] alignment = "CENTER" -> "center"
    [] alignment = "MAX" -> "flex-end"
    [] OTHER -> "flex-start"

\* the properties every layout has: the strategy, and the box when the node
\* has one
BaseLayout(node, strategy) ==
  LET bb == node.absoluteBoundingBox IN
  IF bb.defined
  THEN [strategy |-> strategy, position |-> [x |-> bb.x, y |-> bb.y],
        width |-> bb.width, height |-> bb.height]
  ELSE [strategy |-> strategy]

\* the auto-layout branch: the declared direction, spacing, padding and
\* alignment
DeclaredAlignment(l, node) ==
  LET l2 == IF node.primaryAxisAlignItems # "undefined"
            THEN Put(l, "justifyContent",
                     mapPrimaryAxisAlignment(node.primaryAxisAlignItems))
            ELSE l
  IN IF node.counterAxisAlignItems # "undefined"
     THEN Put(l2, "alignItems", mapCounterAxisAlignment(node.counterAxisAlignItems))
     ELSE l2

DeclaredLayout(l, node) ==
  DeclaredAlignment(
    Put(Put(Put(l,
      "flexDirection", IF node.layoutMode = "HORIZONTAL" THEN "row" ELSE "column"),
      "gap", Round100(node.itemSpacing, 1)),
      "padding", [top |-> Round100(node.paddingTop, 1),
                  right |-> Round100(node.paddingRight, 1),
                  bottom |-> Round100(node.paddingBottom, 1),
                  left |-> Round100(node.paddingLeft, 1)]),
    node)

\* the detected branch, one assignment of the code per operator
\* a deliberately wrong variant: the gap is kept only above 50px, not 0.5px
DetectedGapCoarse(l, averageGap) ==
  IF averageGap > 5000 THEN Put(l, "gap", averageGap) ELSE l

DetectedGap(l, averageGap) ==
  IF averageGap > 50 THEN Put(l, "gap", averageGap) ELSE l

DetectedPadding(l, padding) ==
  IF DOMAIN padding # {} THEN Put(l, "padding", padding) ELSE l

DetectedAlignItems(l, alignment, arrangement) ==
  IF Has(alignment, "alignItems") THEN Put(l, "alignItems", alignment.alignItems)
  ELSE IF arrangement = "vertical" THEN Put(l, "alignItems", "center")
  ELSE l

DetectedJustify(l, alignment) ==
  IF Has(alignment, "justifyContent")
  THEN Put(l, "justifyContent", alignment.justifyContent)
  ELSE l

DetectedAlignment(l, alignment, arrangement) ==
  DetectedJustify(DetectedAlignItems(l, alignment, arrangement), alignment)

DetectedLayout(l, node, boxes, arrangement) ==
  DetectedAlignment(
    DetectedPadding(
      DetectedGap(
        Put(l, "flexDirection", IF arrangement = "horizontal" THEN "row" ELSE "column"),
        calculateChildGaps(boxes, arrangement)),
      calculatePadding(node, boxes)),
    detectAlignment(node, boxes, arrangement),
    arrangement)

\* a deliberately wrong variant: the detected branch does not look at the strategy
FlexLayoutAnyStrategy(l, node, boxes, strategy) ==
  IF node.layoutMode # "undefined" /\ node.layoutMode # "NONE"
  THEN DeclaredLayout(l, node)
  ELSE IF Len(boxes) > 1
       THEN DetectedLayout(l, node, boxes, detectChildArrangement(boxes))
       ELSE l

FlexLayout(l, node, boxes, strategy) ==
  IF node.layoutMode # "undefined" /\ node.layoutMode # "NONE"
  THEN DeclaredLayout(l, node)
  ELSE IF strategy = "flexbox" /\ Len(boxes) > 1
       THEN DetectedLayout(l, node, boxes, detectChildArrangement(boxes))
       ELSE l

LayoutConstraints(l, node) ==
  IF node.constraints.defined
  THEN Put(l, "constraints", [horizontal |-> node.constraints.horizontal,
                              vertical |-> node.constraints.vertical])
  ELSE l

StrategyLayout(node, boxes, strategy) ==
  LayoutConstraints(FlexLayout(BaseLayout(node, strategy), node, boxes, strategy),
                    node)

extractLayout(node, boxes) ==
  StrategyLayout(node, boxes, determineLayoutStrategy(node, boxes))

extractStyles(node) ==
  [fills |-> SelectSeq(node.fills, LAMBDA f : f.visible # FALSE)]

\* the absoluteBoundingBox of each entry of a children list
BoxesOf(file, children) ==
  [i \in 1..Len(children) |-> file[children[i]].absoluteBoundingBox]

\* parseNode, for the node at index n of the file; the recursion over the
\* children is the map over the arena in ParseFile
parseNode(file, n) ==
  LET node == file[n] IN
  [id |-> n,
   name |-> node.name,
   children |-> node.children,
   bounds |-> IF node.absoluteBoundingBox.defined
              THEN BoundsOf(node.absoluteBoundingBox) ELSE ZeroBounds,
   styles |-> extractStyles(node),
   layout |-> extractLayout(node, BoxesOf(file, node.children))]

ParseFile(file) == [n \in DOMAIN file |-> parseNode(file, n)]

\* --------------------------------------------- Parser: visual containment
IsDecorative(child) ==
  LET isDecorativeLine == child.bounds.height < 10 /\ child.bounds.width > 20
      isDecorativeContainer == /\ child.bounds.height < 30
                               /\ IncludesIndicator(ToLowerCase(child.name))
  IN isDecorativeLine \/ isDecorativeContainer

Tolerance(child) == IF IsDecorative(child) THEN 30 ELSE 10

\* a deliberately wrong variant: decorative children get the lenient tolerance but no bypass of
\* the background and size tests
isVisuallyContainedNoBypass(child, parent) ==
  LET childBounds == child.bounds
      parentBounds == parent.bounds
      tolerance == Tolerance(child)
  IN /\ childBounds.x >= parentBounds.x - tolerance
     /\ (childBounds.x + childBounds.width)
          <= (parentBounds.x + parentBounds.width + tolerance)
     /\ childBounds.y >= parentBounds.y - tolerance
     /\ (childBounds.y + childBounds.height)
          <= (parentBounds.y + parentBounds.height + tolerance)
     /\ Len(parent.styles.fills) > 0
     /\ 100 * childBounds.width < 95 * parentBounds.width
     /\ 100 * childBounds.height < 95 * parentBounds.height

\* ParsedNode.bounds is always an object, so the !bounds guard never fires
isVisuallyContained(child, parent) ==
  LET childBounds == child.bounds
      parentBounds == parent.bounds
      tolerance == Tolerance(child)
      isInsideX == /\ childBounds.x >= parentBounds.x - tolerance
                   /\ (childBounds.x + childBounds.width)
                        <= (parentBounds.x + parentBounds.width + tolerance)
      isInsideY == /\ childBounds.y >= parentBounds.y - tolerance
                   /\ (childBounds.y + childBounds.height)
                        <= (parentBounds.y + parentBounds.height + tolerance)
      hasBackground == Len(parent.styles.fills) > 0
      isSmaller == /\ 100 * childBounds.width < 95 * parentBounds.width
                   /\ 100 * childBounds.height < 95 * parentBounds.height
  IN IF IsDecorative(child) /\ isInsideX /\ isInsideY THEN TRUE
     ELSE isInsideX /\ isInsideY /\ hasBackground /\ isSmaller

RECURSIVE FirstContainer(_, _, _, _)

\* a deliberately wrong variant: the inner loop does not break, so the last containing sibling wins
LastContainer(t, sibs, i, from) ==
  LET S == {j \in from..Len(sibs) :
              j # i /\ isVisuallyContained(t[sibs[i]], t[sibs[j]])}
  IN IF S = {} THEN 0 ELSE CHOOSE j \in S : \A o \in S : o <= j

\* the inner loop: the first j >= from, j # i, whose node contains sibs[i];
\* 0 when the loop ends without a break
FirstContainer(t, sibs, i, from) ==
  IF from > Len(sibs) THEN 0
  ELSE IF from # i /\ isVisuallyContained(t[sibs[i]], t[sibs[from]]) THEN from
  ELSE FirstContainer(t, sibs, i, from + 1)

\* a deliberately wrong variant: the moved child is put in front of the candidate's children
ScanStepUnshift(acc, sibs, i) ==
  LET j == FirstContainer(acc.t, sibs, i, 1) IN
  IF j # 0
  THEN [t |-> [acc.t EXCEPT ![sibs[j]].children = <<sibs[i]>> \o @],
        remaining |-> acc.remaining]
  ELSE [t |-> acc.t, remaining |-> Append(acc.remaining, sibs[i])]

\* one turn of the outer loop, for child i: acc.t is the arena as mutated so
\* far and acc.remaining is remainingChildren
ScanStep(acc, sibs, i) ==
  LET j == FirstContainer(acc.t, sibs, i, 1) IN
  IF j # 0
  THEN [t |-> [acc.t EXCEPT ![sibs[j]].children = Append(@, sibs[i])],
        remaining |-> acc.remaining]
  ELSE [t |-> acc.t, remaining |-> Append(acc.remaining, sibs[i])]

RECURSIVE ScanSiblings(_, _, _)

\* the outer loop from index i on; sibs is node.children, which the loop
\* does not modify
ScanSiblings(acc, sibs, i) ==
  IF i > Len(sibs) THEN acc
  ELSE ScanSiblings(ScanStep(acc, sibs, i), sibs, i + 1)

RECURSIVE regroupByVisualContainment(_, _)
RECURSIVE RegroupEach(_, _, _)

\* for (const child of node.children) regroupByVisualContainment(child)
RegroupEach(t, sibs, k) ==
  IF k > Len(sibs) THEN t
  ELSE RegroupEach(regroupByVisualContainment(t, sibs[k]), sibs, k + 1)

\* the scan of node.children, then node.children = remainingChildren
RegroupSiblings(t, n) ==
  LET r == ScanSiblings([t |-> t, remaining |-> <<>>], t[n].children, 1)
  IN [r.t EXCEPT ![n].children = r.remaining]

regroupByVisualContainment(t, n) ==
  IF Len(t[n].children) = 0 THEN t
  ELSE RegroupSiblings(RegroupEach(t, t[n].children, 1), n)

Root == 1

\* Parser.parse: the returned root is index Root of the resulting arena
parse(file) == regroupByVisualContainment(ParseFile(file), Root)

\* ------------------------------------------------------------ LayoutEngine
\* `${v}` for a number held in hundredths: at most two decimals, no
\* trailing zeros
Fmt(h) ==
  LET a == Abs(h)
      q == a \div 100
      r == a % 100
      frac == IF r = 0 THEN ""
              ELSE IF r % 10 = 0 THEN "." \o ToString(r \div 10)
              ELSE IF r < 10 THEN ".0" \o ToString(r)
              ELSE "." \o ToString(r)
  IN (IF h < 0 THEN "-" ELSE "") \o ToString(q) \o frac

Px(h) == Fmt(h) \o "px"

\* JavaScript truthiness of an optional numeric field
Truthy(obj, k) == Has(obj, k) /\ obj[k] # 0

NoParent == [id |-> 0, name |-> "", children |-> <<>>, bounds |-> ZeroBounds,
             styles |-> [fills |-> <<>>], layout |-> [strategy |-> "static"]]

\* a deliberately wrong variant: left and top are emitted from the node's
\* own origin when the parent has no position
applyAbsoluteLayoutUnguarded(css0, layout, node, hasParent, parentNode) ==
  IF hasParent
  THEN IF Has(layout, "position") /\ ~Has(parentNode.layout, "position")
       THEN Put(Put(Put(css0, "position", "absolute"),
                    "left", Px(Round100(layout.position.x, 1))),
                "top", Px(Round100(layout.position.y, 1)))
       ELSE Put(css0, "position", "absolute")
  ELSE Put(Put(css0, "position", "relative"), "overflow", "hidden")

applyAbsoluteLayout(css0, layout, node, hasParent, parentNode) ==
  IF hasParent
  THEN LET c1 == Put(css0, "position", "absolute") IN
       IF Has(layout, "position") /\ Has(parentNode.layout, "position")
       THEN LET dx == layout.position.x - parentNode.layout.position.x
                x == Round100(dx, 1)
                y == Round100(layout.position.y - parentNode.layout.position.y, 1)
                isDecorativeContainer ==
                  /\ Truthy(layout, "height") /\ layout.height < 30
                  /\ IncludesIndicator(ToLowerCase(node.name))
                parentWidth == IF Truthy(parentNode.layout, "width")
                               THEN parentNode.layout.width ELSE 0
                elementWidth == IF Truthy(layout, "width") THEN layout.width ELSE 0
                isCentered == Abs(2 * dx - (parentWidth - elementWidth)) < 20
            IN IF /\ isDecorativeContainer /\ parentWidth > 0 /\ elementWidth > 0
                  /\ (isCentered \/ elementWidth = parentWidth)
               THEN Put(Put(Put(c1, "left", "50%"), "transform", "translateX(-50%)"),
                        "top", Px(y))
               ELSE Put(Put(c1, "left", Px(x)), "top", Px(y))
       ELSE c1
  ELSE Put(Put(css0, "position", "relative"), "overflow", "hidden")

\* a deliberately wrong variant: the 2-value form lists the horizontal
\* padding first
PaddingShorthandHorizontalFirst(layout) ==
  LET preciseTop == layout.padding.top
      preciseRight == layout.padding.right
      preciseBottom == layout.padding.bottom
      preciseLeft == layout.padding.left
  IN IF preciseTop = preciseRight /\ preciseRight = preciseBottom
        /\ preciseBottom = preciseLeft
     THEN IF preciseTop > 0 THEN Px(preciseTop) ELSE ""
     ELSE IF preciseTop = preciseBottom /\ preciseLeft = preciseRight
     THEN IF preciseTop > 0 \/ preciseLeft > 0
          THEN Px(preciseRight) \o " " \o Px(preciseTop) ELSE ""
     ELSE Px(preciseTop) \o " " \o Px(preciseRight) \o " "
            \o Px(preciseBottom) \o " " \o Px(preciseLeft)

PaddingShorthand(layout) ==
  LET preciseTop == layout.padding.top
      preciseRight == layout.padding.right
      preciseBottom == layout.padding.bottom
      preciseLeft == layout.padding.left
  IN IF preciseTop = preciseRight /\ preciseRight = preciseBottom
        /\ preciseBottom = preciseLeft
     THEN IF preciseTop > 0 THEN Px(preciseTop) ELSE ""
     ELSE IF preciseTop = preciseBottom /\ preciseLeft = preciseRight
     THEN IF preciseTop > 0 \/ preciseLeft > 0
          THEN Px(preciseTop) \o " " \o Px(preciseRight) ELSE ""
     ELSE Px(preciseTop) \o " " \o Px(preciseRight) \o " "
            \o Px(preciseBottom) \o " " \o Px(preciseLeft)

PaddingFour(layout) ==
  Px(layout.padding.top) \o " " \o Px(layout.padding.right) \o " "
    \o Px(layout.padding.bottom) \o " " \o Px(layout.padding.left)

FlexGap(css0, layout) ==
  IF Has(layout, "gap") /\ layout.gap > 0 THEN Put(css0, "gap", Px(layout.gap))
  ELSE css0

FlexPaddingValue(css0, padding) ==
  IF padding # "" THEN Put(css0, "padding", padding) ELSE css0

FlexPadding(css0, layout) ==
  IF Has(layout, "padding") THEN FlexPaddingValue(css0, PaddingShorthand(layout))
  ELSE css0

FlexAlignItems(css0, layout) ==
  IF Has(layout, "alignItems") THEN Put(css0, "alignItems", layout.alignItems)
  ELSE css0

FlexJustifyContent(css0, layout) ==
  IF Has(layout, "justifyContent")
  THEN Put(css0, "justifyContent", layout.justifyContent)
  ELSE css0

applyFlexboxLayout(css0, layout) ==
  FlexJustifyContent(
    FlexAlignItems(
      FlexPadding(
        FlexGap(
          Put(Put(css0, "display", "flex"), "flexDirection",
              IF Has(layout, "flexDirection") THEN layout.flexDirection
              ELSE "column"),
          layout),
        layout),
      layout),
    layout)

GridGap(css0, layout) ==
  IF Has(layout, "gap") /\ layout.gap > 0 THEN Put(css0, "gap", Px(layout.gap))
  ELSE css0

GridPadding(css0, layout) ==
  IF Has(layout, "padding") THEN Put(css0, "padding", PaddingFour(layout)) ELSE css0

applyGridLayout(css0, layout) ==
  GridPadding(GridGap(Put(css0, "display", "grid"), layout), layout)

applyStaticLayout(css0, layout) ==
  IF Has(layout, "padding") THEN Put(css0, "padding", PaddingFour(layout)) ELSE css0

ConstrainHorizontal(css0, h) ==
  CASE h = "RIGHT" -> Delete(Put(css0, "right", "0"), "left")
    [] h = "CENTER" -> Put(Put(css0, "left", "50%"), "transform", "translateX(-50%)")
    [] h = "LEFT_RIGHT" -> Delete(Put(Put(css0, "left", "0"), "right", "0"), "width")
    [] h = "SCALE" -> IF Has(css0, "width") THEN Put(css0, "width", "100%") ELSE css0
    [] OTHER -> css0

\* a deliberately wrong variant: the vertical CENTER overwrites the transform
ConstrainVerticalOverwrites(css0, v) ==
  CASE v = "BOTTOM" -> Delete(Put(css0, "bottom", "0"), "top")
    [] v = "CENTER" -> Put(Put(css0, "top", "50%"), "transform", "translateY(-50%)")
    [] v = "TOP_BOTTOM" -> Delete(Put(Put(css0, "top", "0"), "bottom", "0"), "height")
    [] v = "SCALE" -> IF Has(css0, "height") THEN Put(css0, "height", "100%") ELSE css0
    [] OTHER -> css0

ConstrainVertical(css0, v) ==
  CASE v = "BOTTOM" -> Delete(Put(css0, "bottom", "0"), "top")
    [] v = "CENTER" ->
         Put(Put(css0, "top", "50%"), "transform",
             IF Has(css0, "transform") THEN css0.transform \o " translateY(-50%)"
             ELSE "translateY(-50%)")
    [] v = "TOP_BOTTOM" -> Delete(Put(Put(css0, "top", "0"), "bottom", "0"), "height")
    [] v = "SCALE" -> IF Has(css0, "height") THEN Put(css0, "height", "100%") ELSE css0
    [] OTHER -> css0

applyConstraints(css0, constraints) ==
  ConstrainVertical(ConstrainHorizontal(css0, constraints.horizontal),
                    constraints.vertical)

\* lines 13-16: the decorative test on the node's own layout
IsDecorativeLayout(node) ==
  LET layout == node.layout
      isDecorativeLine == /\ Truthy(layout, "height") /\ layout.height < 10
                          /\ Truthy(layout, "width") /\ layout.width > 20
      isDecorativeContainer == /\ Truthy(layout, "height") /\ layout.height < 30
                               /\ IncludesIndicator(ToLowerCase(node.name))
  IN isDecorativeLine \/ isDecorativeContainer

EffectiveStrategy(node, hasParent, parentNode) ==
  LET parentIsFlexbox == hasParent /\ parentNode.layout.strategy = "flexbox"
  IN IF IsDecorativeLayout(node) /\ parentIsFlexbox /\ node.layout.strategy = "absolute"
     THEN "static"
     ELSE node.layout.strategy

\* lines 47-99: centring of decorative and centred elements
IsCentered(layout, pl) ==
  Abs(2 * (layout.position.x - pl.position.x) - (pl.width - layout.width)) < 10

IsDecorativeLine(layout, pl) ==
  layout.height < 10 /\ layout.width > 20 /\ 10 * layout.width < 8 * pl.width

IsDecorativeContainer(node) ==
  node.layout.height < 30 /\ IncludesIndicator(ToLowerCase(node.name))

IsSmallElement(layout) == layout.width < 150 /\ layout.height < 10

\* lines 75-82: a decorative element in the lower half goes to the end
PushToEnd(css0, layout, pl) ==
  IF Truthy(pl, "height") /\ 2 * (layout.position.y - pl.position.y) > pl.height
  THEN Put(Put(css0, "order", "999"), "marginTop", "auto")
  ELSE css0

\* lines 66-93: inside a column flexbox parent
CenterInColumn(css0, node, pl) ==
  IF pl.strategy = "flexbox" /\ Has(pl, "flexDirection") /\ pl.flexDirection = "column"
  THEN IF IsDecorativeLine(node.layout, pl) \/ IsDecorativeContainer(node)
       THEN Delete(Delete(Delete(
              PushToEnd(Put(css0, "alignSelf", "center"), node.layout, pl),
              "position"), "left"), "top")
       ELSE IF IsCentered(node.layout, pl) THEN Put(css0, "alignSelf", "center")
       ELSE css0
  ELSE css0

\* lines 95-98: tested on layout.strategy, not on the effective strategy
CenterAbsolute(css0, node, pl) ==
  IF /\ node.layout.strategy = "absolute"
     /\ \/ IsDecorativeLine(node.layout, pl)
        \/ IsSmallElement(node.layout) /\ IsCentered(node.layout, pl)
  THEN Put(Put(css0, "left", "50%"), "transform", "translateX(-50%)")
  ELSE css0

ApplyCentering(css0, node, parentNode) ==
  CenterAbsolute(CenterInColumn(css0, node, parentNode.layout), node,
                 parentNode.layout)

StrategyCSS(effectiveStrategy, node, hasParent, parentNode) ==
  CASE effectiveStrategy = "absolute" ->
         applyAbsoluteLayout(<<>>, node.layout, node, hasParent, parentNode)
    [] effectiveStrategy = "flexbox" -> applyFlexboxLayout(<<>>, node.layout)
    [] effectiveStrategy = "grid" -> applyGridLayout(<<>>, node.layout)
    [] OTHER -> applyStaticLayout(<<>>, node.layout)

WidthCSS(css0, layout) ==
  IF Has(layout, "width") /\ layout.width > 0
  THEN Put(css0, "width", Px(Round100(layout.width, 1))) ELSE css0

CenteringCSS(css0, node, hasParent, parentNode) ==
  IF /\ hasParent /\ Truthy(node.layout, "width") /\ Truthy(node.layout, "height")
     /\ Has(node.layout, "position") /\ Has(parentNode.layout, "position")
     /\ Truthy(parentNode.layout, "width")
  THEN ApplyCentering(css0, node, parentNode) ELSE css0

HeightCSS(css0, layout) ==
  IF Has(layout, "height") /\ layout.height > 0
  THEN IF layout.strategy = "flexbox"
       THEN Put(css0, "minHeight", Px(Round100(layout.height, 1)))
       ELSE Put(css0, "height", Px(Round100(layout.height, 1)))
  ELSE css0

ConstraintsCSS(css0, layout) ==
  IF Has(layout, "constraints") THEN applyConstraints(css0, layout.constraints)
  ELSE css0

generateLayoutCSS(node, hasParent, parentNode) ==
  ConstraintsCSS(
    HeightCSS(
      CenteringCSS(
        WidthCSS(
          StrategyCSS(EffectiveStrategy(node, hasParent, parentNode),
                      node, hasParent, parentNode),
          node.layout),
        node, hasParent, parentNode),
      node.layout),
    node.layout)

\* Transformer.transformNode: the layout CSS of every node reached from n,
\* each computed against its parent in the parsed tree
RECURSIVE transformNode(_, _, _, _)
RECURSIVE TransformEach(_, _, _, _)

TransformEach(t, sibs, k, p) ==
  IF k > Len(sibs) THEN <<>>
  ELSE transformNode(t, sibs[k], TRUE, p) @@ TransformEach(t, sibs, k + 1, p)

transformNode(t, n, hasParent, p) ==
  (n :> generateLayoutCSS(t[n], hasParent, IF hasParent THEN t[p] ELSE NoParent))
    @@ TransformEach(t, t[n].children, 1, n)

\* ----------------------------------------------------------------- inputs
Container == FNode("Frame", Box(0, 0, 100, 100), <<Visible>>, "undefined")
Panel == FNode("Frame", Box(10, 10, 50, 50), <<Visible>>, "undefined")
Label == FNode("Frame", Box(20, 20, 20, 20), <<>>, "undefined")
Line == FNode("Line 1", Box(20, 120, 40, 4), <<Visible>>, "undefined")
HomeIndicator == FNode("Home Indicator", Box(30, 105, 20, 20), <<>>, "undefined")
Ghost == FNode("Frame", Box(15, 15, 35, 80), <<Hidden>>, "undefined")

KidNodes == {Container, Panel, Label, Line, HomeIndicator, Ghost}
GrandNodes == {Panel, Label}

Document == FNode("Frame", NoBox, <<>>, "undefined")
Page == FNode("Frame", Box(0, 0, 100, 140), <<Visible>>, "undefined")
AutoPage == [FNode("Frame", Box(0, 0, 100, 140), <<Visible>>, "VERTICAL")
               EXCEPT !.itemSpacing = 8, !.paddingTop = 4, !.paddingBottom = 4,
                      !.primaryAxisAlignItems = "CENTER",
                      !.counterAxisAlignItems = "MAX"]

RootNodes == {Document, Page, AutoPage}

Seqs(S, lo, hi) == UNION {[1..k -> S] : k \in lo..hi}

\* a file: the root at index 1, its children at 2..K+1, the children of
\* node 2 after them
File(root, kids, grands) ==
  LET K == Len(kids)
      G == Len(grands)
  IN <<[root EXCEPT !.children = [i \in 1..K |-> i + 1]]>>
     \o [i \in 1..K |-> IF i = 1
                        THEN [kids[i] EXCEPT !.children = [g \in 1..G |-> K + 1 + g]]
                        ELSE kids[i]]
     \o grands

TreeFiles ==
  {File(r, k, g) : r \in RootNodes, k \in Seqs(KidNodes, 1, MaxKids),
                   g \in Seqs(GrandNodes, 0, MaxGrand)}

\* a flat file for the layout decisions: one parent, declared or not, boxed
\* or not, over children that stack, sit side by side, overlap or have no box
Plain(box) == FNode("Frame", box, <<>>, "undefined")

LayoutKids == {Plain(Box(0, 0, 50, 40)), Plain(Box(0, 50, 100, 40)),
               Plain(Box(60, 0, 40, 40)), Plain(NoBox)}

\* itemSpacing and paddingTop, paddingRight, paddingBottom, paddingLeft
Spacings == {<<0, 0, 0, 0, 0>>, <<8, 4, 6, 10, 3>>, <<8, 5, 5, 5, 5>>,
             <<0, 4, 6, 4, 6>>, <<12, 0, 6, 0, 6>>}

\* primaryAxisAlignItems and counterAxisAlignItems
Alignments == {<<"undefined", "undefined">>, <<"MIN", "MIN">>, <<"CENTER", "CENTER">>,
               <<"MAX", "MAX">>, <<"SPACE_BETWEEN", "undefined">>,
               <<"undefined", "CENTER">>}

LayoutRoots ==
  {[FNode("Frame", b, <<>>, m)
      EXCEPT !.itemSpacing = sp[1], !.paddingTop = sp[2], !.paddingRight = sp[3],
             !.paddingBottom = sp[4], !.paddingLeft = sp[5],
             !.primaryAxisAlignItems = al[1], !.counterAxisAlignItems = al[2]] :
     b \in {NoBox, Box(0, 0, 100, 140)},
     m \in {"undefined", "NONE", "HORIZONTAL", "VERTICAL"},
     sp \in Spacings,
     al \in Alignments}

LayoutFiles ==
  {File(r, k, <<>>) : r \in LayoutRoots, k \in Seqs(LayoutKids, 0, MaxLayoutKids)}

\* ---------------------------------------------------------------- actions
Init ==
  /\ figma \in TreeFiles
  /\ tree = <<>>
  /\ prev = <<>>
  /\ css = <<>>
  /\ out = <<>>
  /\ pc = "ready"
  /\ ServerIdle /\ ClientIdle /\ GeneratorIdle

\* parser.parse(figmaFile); prev keeps the tree parseNode built, before the
\* regrouping pass
Parse ==
  /\ pc = "ready"
  /\ prev' = ParseFile(figma)
  /\ tree' = parse(figma)
  /\ pc' = "parsed"
  /\ UNCHANGED <<figma, css, out, serverVars, clientVars, generatorVars>>

\* a second run of regroupByVisualContainment on the returned root
Regroup ==
  /\ pc = "parsed"
  /\ prev' = tree
  /\ tree' = regroupByVisualContainment(tree, Root)
  /\ pc' = "regrouped"
  /\ UNCHANGED <<figma, css, out, serverVars, clientVars, generatorVars>>

\* transformer.transform(parsedNode)
Transform ==
  /\ pc = "parsed"
  /\ css' = transformNode(tree, Root, FALSE, Root)
  /\ pc' = "transformed"
  /\ UNCHANGED <<figma, tree, prev, out, serverVars, clientVars, generatorVars>>

Next == Parse \/ Regroup \/ Transform

Spec == Init /\ [][Next]_vars

\* the same pipeline over the flat files
InitLayout ==
  /\ figma \in LayoutFiles
  /\ tree = <<>>
  /\ prev = <<>>
  /\ css = <<>>
  /\ out = <<>>
  /\ pc = "ready"
  /\ ServerIdle /\ ClientIdle /\ GeneratorIdle

SpecLayout == InitLayout /\ [][Next]_vars

\* the same pipeline over files whose nodes declare constraints: the root
\* and its first child are constrained, the first child carries the
\* grandchildren, an optional second child makes the root's children stack
\* or overlap
CentredIndicator == FNode("Home Indicator", Box(40, 105, 20, 20), <<>>, "undefined")

EmitKids == KidNodes \cup {CentredIndicator}

Constraint(h, v) == [defined |-> TRUE, horizontal |-> h, vertical |-> v]

ConstraintPairs ==
  {NoConstraints}
    \cup {Constraint(h, v) : h \in {"LEFT", "RIGHT", "CENTER", "LEFT_RIGHT", "SCALE"},
                             v \in {"TOP", "BOTTOM", "CENTER", "TOP_BOTTOM", "SCALE"}}

RootConstraintPairs ==
  {NoConstraints, Constraint("LEFT", "TOP"), Constraint("CENTER", "BOTTOM")}

Constrained(node, c) == [node EXCEPT !.constraints = c]

EmitFiles ==
  {File(Constrained(r, rc), <<Constrained(k, kc)>> \o rest, g) :
     r \in RootNodes, rc \in RootConstraintPairs,
     k \in EmitKids, kc \in ConstraintPairs,
     rest \in Seqs({Panel}, 0, 1), g \in Seqs(GrandNodes, 0, MaxGrand)}

InitEmit ==
  /\ figma \in EmitFiles
  /\ tree = <<>>
  /\ prev = <<>>
  /\ css = <<>>
  /\ out = <<>>
  /\ pc = "ready"
  /\ ServerIdle /\ ClientIdle /\ GeneratorIdle

SpecEmit == InitEmit /\ [][Next]_vars

\* ------------------------------------------------- the estimators alone
\* the children of the root as detectChildArrangement and the estimators
\* receive them
RootBoxes == BoxesOf(figma, figma[Root].children)

\* the guard of the detected branch of extractLayout, for the root
DetectedBranch ==
  /\ figma[Root].layoutMode \in {"undefined", "NONE"}
  /\ determineLayoutStrategy(figma[Root], RootBoxes) = "flexbox"
  /\ Len(RootBoxes) > 1

\* this.detectChildArrangement(node.children), as determineLayoutStrategy
\* calls it
Arrange ==
  /\ pc = "ready"
  /\ figma[Root].layoutMode \in {"undefined", "NONE"}
  /\ Len(RootBoxes) > 0 /\ figma[Root].absoluteBoundingBox.defined
  /\ out' = [arrangement |-> detectChildArrangement(RootBoxes)]
  /\ pc' = "arranged"
  /\ UNCHANGED <<figma, tree, prev, css, serverVars, clientVars, generatorVars>>

\* this.calculateChildGaps(node.children, arrangement)
Gaps ==
  /\ pc = "ready"
  /\ DetectedBranch
  /\ out' = [averageGap |->
               calculateChildGaps(RootBoxes, detectChildArrangement(RootBoxes))]
  /\ pc' = "gaps"
  /\ UNCHANGED <<figma, tree, prev, css, serverVars, clientVars, generatorVars>>

\* this.calculatePadding(node, node.children)
Padding ==
  /\ pc = "ready"
  /\ DetectedBranch
  /\ out' = [padding |-> calculatePadding(figma[Root], RootBoxes)]
  /\ pc' = "padding"
  /\ UNCHANGED <<figma, tree, prev, css, serverVars, clientVars, generatorVars>>

\* this.detectAlignment(node, node.children, arrangement)
Align ==
  /\ pc = "ready"
  /\ DetectedBranch
  /\ out' = [alignment |->
               detectAlignment(figma[Root], RootBoxes, detectChildArrangement(RootBoxes))]
  /\ pc' = "aligned"
  /\ UNCHANGED <<figma, tree, prev, css, serverVars, clientVars, generatorVars>>

NextInfer == Arrange \/ Gaps \/ Padding \/ Align \/ Parse

\* a parent over children laid one after the other along one axis: each
\* child is 80 long and 280 across, the gaps between them are drawn from
\* GapPalette (a negative gap is an overlap)
GapPalette == {-20, -3, 0, 20, 40, 250}

RECURSIVE Mains(_, _)
Mains(start, gaps) ==
  IF gaps = <<>> THEN <<start>>
  ELSE <<start>> \o Mains(start + 80 + gaps[1], Tail(gaps))

Placed(axis, main, cross, length, across) ==
  IF axis = "vertical" THEN Box(cross, main, across, length)
  ELSE Box(main, cross, length, across)

StackParent(axis) ==
  IF axis = "vertical" THEN Plain(Box(0, 0, 300, 400)) ELSE Plain(Box(0, 0, 400, 300))

Reverse(s) == [i \in 1..Len(s) |-> s[Len(s) + 1 - i]]

InOrder(s, reversed) == IF reversed THEN Reverse(s) ELSE s

Stack(axis, start, gaps) ==
  [i \in 1..(Len(gaps) + 1) |->
     Plain(Placed(axis, Mains(start, gaps)[i], 10, 80, 280))]

GapFiles ==
  {File(StackParent(axis), InOrder(Stack(axis, 0, gaps), reversed), <<>>) :
     axis \in {"vertical", "horizontal"},
     gaps \in Seqs(GapPalette, 1, MaxGaps),
     reversed \in BOOLEAN}

InitGaps ==
  /\ figma \in GapFiles
  /\ tree = <<>>
  /\ prev = <<>>
  /\ css = <<>>
  /\ out = <<>>
  /\ pc = "ready"
  /\ ServerIdle /\ ClientIdle /\ GeneratorIdle

SpecGaps == InitGaps /\ [][NextInfer]_vars

\* the same parents over children that differ across the axis: centred,
\* at the near edge, at the far edge, 2px off the centre, and as wide as the
\* parent but 5px off; cross offset and cross size of each
Across(kind) ==
  CASE kind = "center" -> <<10, 280>>
    [] kind = "start" -> <<0, 100>>
    [] kind = "end" -> <<200, 100>>
    [] kind = "off" -> <<12, 280>>
    [] kind = "wide" -> <<5, 300>>

Kinds == {"center", "start", "end", "off", "wide"}

\* where the first child starts along the axis and the gap between children
Spreads == {<<0, 40>>, <<80, 80>>, <<-20, 40>>}

Row(axis, start, gap, kinds) ==
  [i \in 1..Len(kinds) |->
     Plain(Placed(axis, start + (i - 1) * (80 + gap),
                  Across(kinds[i])[1], 80, Across(kinds[i])[2]))]

AlignFiles ==
  {File(StackParent(axis), Row(axis, sp[1], sp[2], kinds), <<>>) :
     axis \in {"vertical", "horizontal"},
     sp \in Spreads,
     kinds \in Seqs(Kinds, 2, MaxAlignKids)}

InitAlign ==
  /\ figma \in AlignFiles
  /\ tree = <<>>
  /\ prev = <<>>
  /\ css = <<>>
  /\ out = <<>>
  /\ pc = "ready"
  /\ ServerIdle /\ ClientIdle /\ GeneratorIdle

SpecAlign == InitAlign /\ [][NextInfer]_vars

\* ------------------------------------------------- the /convert route
\* Requests run on one thread and give way to each other at every await.
\* logger is the module-level Logger; an entry carries, next to its message,
\* the request that logged it (by), which the program does not record.
Entry(message, r) == [message |-> message, by |-> r]

warn(lg, message, r) == [lg EXCEPT !.warnings = Append(@, Entry(message, r))]
error(lg, message, r) == [lg EXCEPT !.errors = Append(@, Entry(message, r))]

\* the file ids that requests ask for
FileIds == {"fileA", "fileB"}

NewRequest(fileId) ==
  [fileId |-> fileId, at |-> "getFile", retries |-> 0, parserWarnings |-> <<>>,
   transformerWarnings |-> <<>>, allWarnings |-> <<>>, readmeErrors |-> <<>>,
   producedWarnings |-> <<>>, producedErrors |-> <<>>, status |-> 0,
   downloadUrl |-> <<>>]

Pending(r) == r \in DOMAIN requests /\ requests[r].status = 0

RECURSIVE Repeat(_, _)
Repeat(e, n) == IF n = 0 THEN <<>> ELSE <<e>> \o Repeat(e, n - 1)

\* router.post('/convert') up to the first await: the logger is cleared
Begin ==
  /\ Len(requests) < MaxRequests
  /\ \E fileId \in FileIds : requests' = Append(requests, NewRequest(fileId))
  /\ logger' = [errors |-> <<>>, warnings |-> <<>>]
  /\ UNCHANGED <<conversionCache, clock, sweepAt, pipelineVars, out, clientVars, generatorVars>>

\* retryRequest inside getFile logs a warning before each further attempt
FileRetry(r) ==
  /\ Pending(r) /\ requests[r].at = "getFile"
  /\ requests[r].retries < MaxAttempts - 1
  /\ logger' = warn(logger, "Request failed, retrying", r)
  /\ requests' = [requests EXCEPT ![r].retries = @ + 1,
                    ![r].producedWarnings = Append(@, Entry("Request failed, retrying", r))]
  /\ UNCHANGED <<conversionCache, clock, sweepAt, pipelineVars, out, clientVars, generatorVars>>

\* getFile throws: handleError logs the error, the route's catch logs
\* 'Conversion failed' and answers 500
FileFailed(r) ==
  /\ Pending(r) /\ requests[r].at = "getFile"
  /\ logger' = error(error(logger, "Failed to fetch Figma file", r),
                     "Conversion failed", r)
  /\ requests' = [requests EXCEPT ![r].status = 500, ![r].at = "done",
                    ![r].producedErrors =
                      @ \o <<Entry("Failed to fetch Figma file", r),
                             Entry("Conversion failed", r)>>]
  /\ UNCHANGED <<conversionCache, clock, sweepAt, pipelineVars, out, clientVars, generatorVars>>

FileFetched(r) ==
  /\ Pending(r) /\ requests[r].at = "getFile"
  /\ requests' = [requests EXCEPT ![r].at = "getFileComponents"]
  /\ UNCHANGED <<logger, conversionCache, clock, sweepAt, pipelineVars, out, clientVars, generatorVars>>

\* what parser.parse and transformer.transform log
ParseLog(lg, r, pw) ==
  IF pw > 0
  THEN warn(error(lg, "Error parsing node", r), "Parsing completed with warnings", r)
  ELSE lg

TransformLog(lg, r, tw) ==
  IF tw > 0 THEN warn(lg, "Transformation completed with warnings", r) ELSE lg

ComponentsLog(lg, r, ok) ==
  IF ok THEN lg ELSE warn(lg, "Failed to fetch components", r)

\* getFileComponents settles (it logs a warning when it failed); then, up to
\* the await of exportImages: parse with pw failing nodes, transform with tw
\* style warnings
ComponentsSettled(r) ==
  /\ Pending(r) /\ requests[r].at = "getFileComponents"
  /\ \E ok \in BOOLEAN, pw \in 0..1, tw \in 0..1 :
       /\ logger' = TransformLog(ParseLog(ComponentsLog(logger, r, ok), r, pw), r, tw)
       /\ requests' =
            [requests EXCEPT
               ![r].at = "exportImages",
               ![r].parserWarnings = Repeat(Entry("Error parsing node", r), pw),
               ![r].transformerWarnings = Repeat(Entry("Unsupported style", r), tw),
               ![r].producedWarnings =
                 @ \o (IF ok THEN <<>> ELSE <<Entry("Failed to fetch components", r)>>)
                   \o Repeat(Entry("Error parsing node", r), pw)
                   \o Repeat(Entry("Parsing completed with warnings", r), pw)
                   \o Repeat(Entry("Unsupported style", r), tw)
                   \o Repeat(Entry("Transformation completed with warnings", r), tw),
               ![r].producedErrors = @ \o Repeat(Entry("Error parsing node", r), pw)]
  /\ UNCHANGED <<conversionCache, clock, sweepAt, pipelineVars, out, clientVars, generatorVars>>

\* exportImages settles; logger.getSummary(), allWarnings and the README are
\* taken, up to the await of createZIP
AssetsExported(r) ==
  /\ Pending(r) /\ requests[r].at = "exportImages"
  /\ requests' = [requests EXCEPT
                    ![r].at = "createZIP",
                    ![r].allWarnings = requests[r].parserWarnings
                                         \o requests[r].transformerWarnings
                                         \o logger.warnings,
                    ![r].readmeErrors = logger.errors]
  /\ UNCHANGED <<logger, conversionCache, clock, sweepAt, pipelineVars, out, clientVars, generatorVars>>

\* createZIP settles: the ZIP is cached and the response sent
Respond(r) ==
  /\ Pending(r) /\ requests[r].at = "createZIP"
  /\ conversionCache' = Put(conversionCache, <<requests[r].fileId, clock>>,
                            [zip |-> r, timestamp |-> clock])
  /\ requests' = [requests EXCEPT ![r].status = 200, ![r].at = "done",
                    ![r].downloadUrl = <<requests[r].fileId, clock>>]
  /\ UNCHANGED <<logger, clock, sweepAt, pipelineVars, out, clientVars, generatorVars>>

NextConvert ==
  \/ Begin
  \/ \E r \in 1..MaxRequests :
       \/ FileRetry(r) \/ FileFailed(r) \/ FileFetched(r)
       \/ ComponentsSettled(r) \/ AssetsExported(r) \/ Respond(r)

InitConvert ==
  /\ PipelineIdle /\ out = <<>>
  /\ ServerIdle /\ ClientIdle /\ GeneratorIdle

SpecConvert == InitConvert /\ [][NextConvert]_vars

\* ------------------------------------------------------- HTMLGenerator
\* A TransformedNode: the tag determineHTMLTag chose, the Figma id, whether
\* the element has text content, the children. The generated HTML is kept as
\* the data-figma-id of its elements, in document order.
Element(tag, id, text, children) ==
  [tag |-> tag, id |-> id, text |-> text, children |-> children]

\* Transformer.determineHTMLTag, for the node types and names of the inputs
determineHTMLTag(type, name) ==
  CASE type = "DOCUMENT" -> "main"
    [] type = "CANVAS" -> "section"
    [] type = "TEXT" -> "span"
    [] type = "FRAME" /\ name = "input" -> "input-text"
    [] OTHER -> "div"

RECURSIVE generateElement(_)
RECURSIVE generateElements(_, _)
generateElements(children, k) ==
  IF k > Len(children) THEN <<>>
  ELSE generateElement(children[k]) \o generateElements(children, k + 1)

generateElement(node) ==
  IF node.tag = "input-text" THEN <<node.id>>
  ELSE IF node.text THEN <<node.id>>
  ELSE <<node.id>> \o generateElements(node.children, 1)

\* the node generate renders: the first child of the document, if any
ContentNode(node) ==
  IF node.tag = "main" /\ Len(node.children) > 0 THEN node.children[1] ELSE node

RenderContent(contentNode) ==
  IF contentNode.tag = "section" /\ Len(contentNode.children) > 0
  THEN generateElements(contentNode.children, 1)
  ELSE generateElement(contentNode)

generate(node) == RenderContent(ContentNode(node))

\* htmlGenerator.generate(transformedNode, classMap)
Generate ==
  /\ transformedNode # <<>> /\ out = <<>>
  /\ out' = [html |-> generate(transformedNode)]
  /\ UNCHANGED <<pipelineVars, serverVars, clientVars, generatorVars>>

\* documents of 1..MaxPages pages of 0..MaxFrames frames: a frame is empty,
\* holds one text, or is an input field over one text
FrameKinds == {"empty", "group", "input"}

FrameElement(kind, id) ==
  Element(determineHTMLTag("FRAME", kind), id, FALSE,
          IF kind = "empty" THEN <<>>
          ELSE <<Element(determineHTMLTag("TEXT", "text"), Append(id, 1), TRUE, <<>>)>>)

PageElement(kinds, p) ==
  Element(determineHTMLTag("CANVAS", "page"), <<p>>, FALSE,
          [f \in 1..Len(kinds) |-> FrameElement(kinds[f], <<p, f>>)])

DocumentElement(pages) ==
  Element(determineHTMLTag("DOCUMENT", "document"), <<>>, FALSE,
          [p \in 1..Len(pages) |-> PageElement(pages[p], p)])

Documents ==
  {DocumentElement(pages) : pages \in Seqs(Seqs(FrameKinds, 0, MaxFrames), 1, MaxPages)}

InitHtml ==
  /\ transformedNode \in Documents
  /\ declarations = <<>>
  /\ out = <<>>
  /\ PipelineIdle /\ ServerIdle /\ ClientIdle

NextHtml == Generate

SpecHtml == InitHtml /\ [][NextHtml]_vars

\* -------------------------------------------------------- CSSGenerator
\* A property name is kept as its words: <<"padding", "top">> is the key
\* paddingTop. propertyOrder holds these entries of the list of
\* organizeDeclarations, in the order of that list.
propertyOrder ==
  <<(<<"display">>), <<"gap">>, <<"padding">>, <<"padding", "top">>,
    <<"margin", "top">>, <<"width">>, <<"background", "color">>>>

\* a.localeCompare(b) for the keys outside the list that the inputs use:
\* columns sorts before columnWidth (s before w), boxSizing before columns
Alphabetical ==
  <<(<<"box", "sizing">>), <<"columns">>, <<"column", "width">>,
    <<"filter">>, <<"order">>>>

\* Array.prototype.indexOf: 0-based, -1 when absent
indexOf(list, e) ==
  IF \E i \in DOMAIN list : list[i] = e
  THEN (CHOOSE i \in DOMAIN list : list[i] = e) - 1
  ELSE -1

localeCompare(a, b) == indexOf(Alphabetical, a) - indexOf(Alphabetical, b)

\* a deliberately wrong variant: a listed property goes after an unlisted one
compareEntriesListedLast(a, b) ==
  IF indexOf(propertyOrder, a) # -1 /\ indexOf(propertyOrder, b) # -1
  THEN indexOf(propertyOrder, a) - indexOf(propertyOrder, b)
  ELSE IF indexOf(propertyOrder, a) # -1 THEN 1
  ELSE IF indexOf(propertyOrder, b) # -1 THEN -1
  ELSE localeCompare(a, b)

\* the comparator of entries.sort
compareEntries(a, b) ==
  IF indexOf(propertyOrder, a) # -1 /\ indexOf(propertyOrder, b) # -1
  THEN indexOf(propertyOrder, a) - indexOf(propertyOrder, b)
  ELSE IF indexOf(propertyOrder, a) # -1 THEN -1
  ELSE IF indexOf(propertyOrder, b) # -1 THEN 1
  ELSE localeCompare(a, b)

\* Array.prototype.sort with that comparator (stable)
RECURSIVE InsertEntry(_, _)
InsertEntry(sorted, e) ==
  IF sorted = <<>> THEN <<e>>
  ELSE IF compareEntries(Head(sorted)[1], e[1]) <= 0
       THEN <<Head(sorted)>> \o InsertEntry(Tail(sorted), e)
       ELSE <<e>> \o sorted

RECURSIVE sortEntries(_, _)
sortEntries(entries, k) ==
  IF k > Len(entries) THEN <<>>
  ELSE InsertEntry(sortEntries(entries, k + 1), entries[Len(entries) + 1 - k])

\* str.replace(/([a-z0-9])([A-Z])/g, '$1-$2').toLowerCase(): a hyphen at
\* every boundary between two words
RECURSIVE camelToKebab(_)
camelToKebab(words) ==
  IF Len(words) = 1 THEN words[1]
  ELSE words[1] \o "-" \o camelToKebab(Tail(words))

\* the lines of one rule, as property and value
organizeDeclarations(entries) ==
  [i \in 1..Len(entries) |->
     [property |-> camelToKebab(sortEntries(entries, 1)[i][1]),
      value |-> sortEntries(entries, 1)[i][2]]]

\* formatCSS, for the rule of one node's styles
Organize ==
  /\ declarations # <<>> /\ out = <<>>
  /\ out' = [css |-> organizeDeclarations(declarations)]
  /\ UNCHANGED <<pipelineVars, serverVars, clientVars, generatorVars>>

\* styles of 1..MaxDeclarations distinct keys, in any insertion order; the
\* value of an entry is its place in that order
PropertyNames ==
  {propertyOrder[i] : i \in DOMAIN propertyOrder}
    \cup {Alphabetical[i] : i \in DOMAIN Alphabetical}

StyleObjects ==
  {[i \in 1..Len(keys) |-> <<keys[i], i>>] :
     keys \in {k \in Seqs(PropertyNames, 1, MaxDeclarations) :
                 \A i, j \in DOMAIN k : i # j => k[i] # k[j]}}

InitCss ==
  /\ declarations \in StyleObjects
  /\ transformedNode = <<>>
  /\ out = <<>>
  /\ PipelineIdle /\ ServerIdle /\ ClientIdle

NextCss == Organize

SpecCss == InitCss /\ [][NextCss]_vars

\* ------------------------------------------- cache, sweep and download
\* Date.now() advances; the callback of setInterval runs when it is due
Tick ==
  /\ clock < MaxClock /\ clock < sweepAt
  /\ clock' = clock + 1
  /\ UNCHANGED <<logger, requests, conversionCache, sweepAt,
                 pipelineVars, out, clientVars, generatorVars>>

\* data.timestamp < oneHourAgo
Expired(data, now) == data.timestamp < now - MaxAge

\* the callback of setInterval
Sweep ==
  /\ clock = sweepAt
  /\ conversionCache' =
       [id \in {k \in DOMAIN conversionCache : ~Expired(conversionCache[k], clock)}
          |-> conversionCache[id]]
  /\ sweepAt' = sweepAt + SweepEvery
  /\ UNCHANGED <<logger, requests, clock, pipelineVars, out, clientVars, generatorVars>>

\* router.get('/download/:id')
Download(id) ==
  /\ out' = IF Has(conversionCache, id)
            THEN [status |-> 200, id |-> id, zip |-> conversionCache[id].zip]
            ELSE [status |-> 404, id |-> id, zip |-> 0]
  /\ UNCHANGED <<serverVars, pipelineVars, clientVars, generatorVars>>

\* the ids that clients ask for: the download URLs they were sent and one
\* that no response carried
DownloadIds ==
  {requests[r].downloadUrl : r \in {q \in DOMAIN requests : requests[q].status = 200}}
    \cup {<<"fileA", -1>>}

\* conversions whose createZIP is about to settle
InFlight ==
  {[r \in 1..Len(ids) |-> [NewRequest(ids[r]) EXCEPT !.at = "createZIP"]] :
     ids \in Seqs(FileIds, 1, MaxRequests)}

InitCache ==
  /\ requests \in InFlight
  /\ logger = [errors |-> <<>>, warnings |-> <<>>]
  /\ conversionCache = <<>>
  /\ clock = 0
  /\ sweepAt = SweepEvery
  /\ out = <<>>
  /\ PipelineIdle /\ ClientIdle /\ GeneratorIdle

NextCache ==
  \/ Tick
  \/ Sweep
  \/ \E r \in 1..MaxRequests : Respond(r)
  \/ \E id \in DownloadIds : Download(id)

SpecCache == InitCache /\ [][NextCache]_vars

\* ------------------------------------------------------ FigmaAPIClient
\* What one invocation of requestFn can end with: a response (axios
\* resolves on 2xx), an axios error carrying the status of the response
\* (0: no response was received), or an error that is not an axios error.
Response == [ok |-> TRUE, axios |-> FALSE, status |-> 200]

AxiosError(status) == [ok |-> FALSE, axios |-> TRUE, status |-> status]

OtherError == [ok |-> FALSE, axios |-> FALSE, status |-> 0]

Statuses == {0, 304, 404, 429, 500}

Outcomes == {Response, OtherError} \cup {AxiosError(st) : st \in Statuses}

\* Math.random() * 1000, at its ends
Jitters == {0, 999}

getRetryDelay(attempt, jitter) == 2 ^ (attempt - 1) * 1000 + jitter

\* statusCode && statusCode >= 400 && statusCode < 500 && statusCode !== 429
ClientError(statusCode) ==
  statusCode # 0 /\ statusCode >= 400 /\ statusCode < 500 /\ statusCode # 429

\* the state after the attempt ended with outcome o
Settle(r, o, jitter) ==
  IF o.ok THEN [r EXCEPT !.pc = "returned", !.result = r.attempt]
  ELSE IF o.axios /\ ~ClientError(o.status) /\ r.attempt < MaxAttempts
  THEN [r EXCEPT !.pc = "sleep", !.lastError = r.attempt,
                 !.delay = getRetryDelay(r.attempt, jitter)]
  ELSE [r EXCEPT !.pc = "thrown", !.lastError = r.attempt]

\* one pass of the loop body up to its return, throw or sleep
Attempt ==
  /\ retry # <<>> /\ retry.pc = "request" /\ retry.attempt <= MaxAttempts
  /\ \E o \in Outcomes, jitter \in Jitters :
       retry' = Settle([retry EXCEPT !.calls = Append(@, o)], o, jitter)
  /\ UNCHANGED <<pipelineVars, out, serverVars, generatorVars>>

\* the timer of sleep(delay) fires: continue with the next attempt
Wake ==
  /\ retry # <<>> /\ retry.pc = "sleep"
  /\ retry' = [retry EXCEPT !.pc = "request", !.attempt = @ + 1,
                            !.slept = Append(@, retry.delay)]
  /\ UNCHANGED <<pipelineVars, out, serverVars, generatorVars>>

InitRetry ==
  /\ retry = [attempt |-> 1, pc |-> "request", calls |-> <<>>,
              slept |-> <<>>, delay |-> 0, lastError |-> 0, result |-> 0]
  /\ out = <<>>
  /\ PipelineIdle /\ ServerIdle /\ GeneratorIdle

NextRetry == Attempt \/ Wake

SpecRetry == InitRetry /\ [][NextRetry]_vars

\* ------------------------------------------------- vocabulary of the claims
Elems(s) == {s[i] : i \in DOMAIN s}

ChildSet(t, n) == Elems(t[n].children)

RECURSIVE Closure(_, _)
Closure(t, S) ==
  LET S2 == S \cup UNION {ChildSet(t, m) : m \in S}
  IN IF S2 = S THEN S ELSE Closure(t, S2)

\* the nodes below n: its children, their children, ...
Descendants(t, n) == Closure(t, ChildSet(t, n))

\* how many entries of all children lists hold n
Occurrences(t, n) ==
  Cardinality({<<m, i>> \in (DOMAIN t) \X (1..Cardinality(DOMAIN t)) :
                 i <= Len(t[m].children) /\ t[m].children[i] = n})

\* section 4.1 of the specification, on the tree parseNode built
Decorative(n) ==
  \/ prev[n].bounds.height < 10 /\ prev[n].bounds.width > 20
  \/ prev[n].bounds.height < 30 /\ IncludesIndicator(ToLowerCase(prev[n].name))

Within(c, k, tol) ==
  LET cb == prev[c].bounds
      kb == prev[k].bounds
  IN /\ cb.x >= kb.x - tol
     /\ cb.x + cb.width <= kb.x + kb.width + tol
     /\ cb.y >= kb.y - tol
     /\ cb.y + cb.height <= kb.y + kb.height + tol

HasVisibleFill(k) == \E i \in DOMAIN figma[k].fills : figma[k].fills[i].visible

Smaller(c, k) ==
  /\ 100 * prev[c].bounds.width < 95 * prev[k].bounds.width
  /\ 100 * prev[c].bounds.height < 95 * prev[k].bounds.height

Passes(c, k) ==
  IF Decorative(c) THEN Within(c, k, 30)
  ELSE Within(c, k, 10) /\ HasVisibleFill(k) /\ Smaller(c, k)

\* the siblings of one scan: two different entries of one children list of
\* the input
Siblings(p, c, k) ==
  /\ c \in Elems(figma[p].children)
  /\ k \in Elems(figma[p].children)
  /\ c # k

IndexOf(s, e) == CHOOSE i \in DOMAIN s : s[i] = e

\* the candidates of c among its siblings sibs, and the first in list order
Candidates(sibs, c) == {k \in Elems(sibs) : k # c /\ Passes(c, k)}

FirstCandidate(sibs, c) ==
  CHOOSE k \in Candidates(sibs, c) :
    \A o \in Candidates(sibs, c) : IndexOf(sibs, k) <= IndexOf(sibs, o)

Parsed == pc \in {"parsed", "transformed"}

\* ------------------------------------------------------------------ claims

\* C1: every node of the tree parse returns carries the layout decision that
\* extractLayout yields for the children it has in the regrouped tree.
C1_LayoutOfRegroupedChildren ==
  Parsed =>
    \A n \in {Root} \cup Descendants(tree, Root) :
       tree[n].layout = extractLayout(figma[n], BoxesOf(figma, tree[n].children))

\* C2: after regroupByVisualContainment no node is its own ancestor.
C2_NoNodeIsItsOwnAncestor ==
  Parsed => \A n \in DOMAIN tree : n \notin Descendants(tree, n)

\* C3: every node of the parsed input is reachable from the root of the
\* resolved tree, and is held by exactly one children list.
C3_NodesConserved ==
  Parsed =>
    \A n \in DOMAIN tree \ {Root} :
       n \in Descendants(tree, Root) /\ Occurrences(tree, n) = 1

\* C4: a second run of regroupByVisualContainment on a resolved tree yields
\* the same tree.
C4_RegroupIdempotent ==
  pc = "regrouped" => tree = prev

\* the case of C5: a non-decorative child fully inside a sibling that has a
\* visible fill and is larger than it
C5Case(p, c, k) ==
  /\ Siblings(p, c, k)
  /\ ~Decorative(c)
  /\ Within(c, k, 0)
  /\ HasVisibleFill(k)
  /\ Smaller(c, k)

\* C5 (as stated): such a child ends up below that candidate and leaves its
\* original sibling list, whatever other siblings exist.
C5_ChildBelowItsCandidate ==
  Parsed =>
    \A p \in DOMAIN figma : \A c, k \in Elems(figma[p].children) :
       C5Case(p, c, k) =>
         c \in Descendants(tree, k) /\ c \notin ChildSet(tree, p)

\* C5 (amended): such a child leaves its original sibling list and becomes a
\* child of the first sibling, in original order, that passes the
\* containment test; that is the candidate itself when no earlier sibling
\* passes.
C5_ChildBelowFirstCandidate ==
  Parsed =>
    \A p \in DOMAIN figma : \A c, k \in Elems(figma[p].children) :
       C5Case(p, c, k) =>
         /\ c \notin ChildSet(tree, p)
         /\ c \in ChildSet(tree, FirstCandidate(figma[p].children, c))
         /\ (\A o \in Candidates(figma[p].children, c) :
               IndexOf(figma[p].children, k) <= IndexOf(figma[p].children, o))
              => c \in ChildSet(tree, k)

C5_Witness ==
  /\ Parsed
  /\ \E p \in DOMAIN figma : \E c, k \in Elems(figma[p].children) :
       /\ C5Case(p, c, k)
       /\ FirstCandidate(figma[p].children, c) # k
       /\ c \notin Descendants(tree, k)
       /\ \E k2 \in Elems(figma[p].children) :
            C5Case(p, c, k2) /\ c \in ChildSet(tree, k2)

Kept(sibs) == SelectSeq(sibs, LAMBDA c : Candidates(sibs, c) = {})

\* the children of sibs whose first candidate is k, in list order
MovedInto(sibs, k) ==
  SelectSeq(sibs, LAMBDA c : Candidates(sibs, c) # {} /\ FirstCandidate(sibs, c) = k)

ParentInFile(n) == CHOOSE p \in DOMAIN figma : n \in Elems(figma[p].children)

\* C7: one scan moves a child to the first sibling, in original order, that
\* passes the test and to no other; the child is appended to that sibling's
\* children and leaves the scanned list; the children that stay keep their
\* order and those moved into one sibling arrive in scan order.
C7_FirstCandidateInScanOrder ==
  Parsed =>
    /\ tree[Root].children = Kept(figma[Root].children)
    /\ \A n \in DOMAIN figma \ {Root} :
         tree[n].children =
           Kept(figma[n].children) \o MovedInto(figma[ParentInFile(n)].children, n)

C7_Witness ==
  /\ Parsed
  /\ \E n \in DOMAIN figma \ {Root} :
       /\ Len(Kept(figma[n].children)) >= 2
       /\ Len(MovedInto(figma[ParentInFile(n)].children, n)) >= 2
       /\ Len(tree[Root].children) >= 1
       /\ \E c \in Elems(MovedInto(figma[ParentInFile(n)].children, n)) :
            Cardinality(Candidates(figma[ParentInFile(n)].children, c)) >= 2

Undeclared(n) == figma[n].layoutMode \in {"undefined", "NONE"}

BoxedChildren(n) == Len(WithBounds(BoxesOf(figma, figma[n].children)))

Arranged(n) ==
  /\ BoxedChildren(n) >= 2
  /\ detectChildArrangement(BoxesOf(figma, figma[n].children))
       \in {"vertical", "horizontal"}

\* C8 (as stated): without declared auto-layout a node is Flexbox iff it has
\* two or more boxed children arranged vertically or horizontally, else
\* Absolute when it has a child, with or without a box of its own, else Static.
C8_StrategyIgnoresOwnBox ==
  Parsed =>
    \A n \in DOMAIN figma :
       Undeclared(n) =>
         tree[n].layout.strategy =
           IF Arranged(n) THEN "flexbox"
           ELSE IF Len(figma[n].children) >= 1 THEN "absolute"
           ELSE "static"

\* C8 (amended): the rule holds for a node that has a bounding box; a node
\* without a bounding box is Static whatever its children.
C8_StrategyOfBoxedNode ==
  Parsed =>
    \A n \in DOMAIN figma :
       Undeclared(n) =>
         tree[n].layout.strategy =
           IF ~figma[n].absoluteBoundingBox.defined THEN "static"
           ELSE IF Arranged(n) THEN "flexbox"
           ELSE IF Len(figma[n].children) >= 1 THEN "absolute"
           ELSE "static"

C8_Witness ==
  /\ Parsed
  /\ Undeclared(Root)
  /\ ~figma[Root].absoluteBoundingBox.defined
  /\ Arranged(Root)
  /\ tree[Root].layout.strategy = "static"

\* the CSS keyword of each declared axis alignment
AlignmentKeyword(a) ==
  CASE a = "MIN" -> "flex-start"
    [] a = "CENTER" -> "center"
    [] a = "MAX" -> "flex-end"
    [] a = "SPACE_BETWEEN" -> "space-between"

\* C9: a node that declares auto-layout is Flexbox with the declared
\* direction, gap = itemSpacing, the four declared paddings and the declared
\* alignments, whatever the bounding boxes of its children.
C9_DeclaredValuesVerbatim ==
  Parsed =>
    \A n \in DOMAIN figma :
       figma[n].layoutMode \in {"HORIZONTAL", "VERTICAL"} =>
         LET l == tree[n].layout
             f == figma[n]
         IN /\ l.strategy = "flexbox"
            /\ l.flexDirection = (IF f.layoutMode = "HORIZONTAL" THEN "row" ELSE "column")
            /\ l.gap = 100 * f.itemSpacing
            /\ l.padding = [top |-> 100 * f.paddingTop, right |-> 100 * f.paddingRight,
                            bottom |-> 100 * f.paddingBottom, left |-> 100 * f.paddingLeft]
            /\ IF f.primaryAxisAlignItems = "undefined" THEN ~Has(l, "justifyContent")
               ELSE l.justifyContent = AlignmentKeyword(f.primaryAxisAlignItems)
            /\ IF f.counterAxisAlignItems = "undefined" THEN ~Has(l, "alignItems")
               ELSE l.alignItems = AlignmentKeyword(f.counterAxisAlignItems)

C9_Witness ==
  /\ Parsed
  /\ figma[Root].layoutMode = "VERTICAL"
  /\ figma[Root].absoluteBoundingBox.defined
  /\ detectChildArrangement(BoxesOf(figma, figma[Root].children)) = "horizontal"
  /\ calculateChildGaps(BoxesOf(figma, figma[Root].children), "horizontal")
       # 100 * figma[Root].itemSpacing
  /\ figma[Root].primaryAxisAlignItems = "SPACE_BETWEEN"
  /\ tree[Root].layout.gap = 800
  /\ tree[Root].layout.flexDirection = "column"

\* C10: a decorative node whose own strategy is Absolute under a Flexbox
\* parent is emitted as Static, and its CSS has none of position, left, top.
C10_DecorativeLeftToFlexFlow ==
  pc = "transformed" =>
    \A p \in DOMAIN css : \A n \in ChildSet(tree, p) :
       (/\ Decorative(n)
        /\ tree[n].layout.strategy = "absolute"
        /\ tree[p].layout.strategy = "flexbox")
       => /\ EffectiveStrategy(tree[n], TRUE, tree[p]) = "static"
          /\ DOMAIN css[n] \cap {"position", "left", "top"} = {}

\* ------------------------------------------------------------------- C11
\* the indices of the boxed children
BoxedIndices(boxes) == {i \in DOMAIN boxes : boxes[i].defined}

\* child i comes before child j in the order by pos (equal positions keep
\* the order of the list)
Before(boxes, i, j, pos) ==
  \/ boxes[i][pos] < boxes[j][pos]
  \/ boxes[i][pos] = boxes[j][pos] /\ i < j

\* child j is the one right after child i in that order
Consecutive(boxes, i, j, pos) ==
  /\ Before(boxes, i, j, pos)
  /\ ~\E k \in BoxedIndices(boxes) :
        Before(boxes, i, k, pos) /\ Before(boxes, k, j, pos)

\* every consecutive pair satisfies next.pos >= current.pos + current.size - 5
StackedAlong(boxes, pos, size) ==
  \A i, j \in BoxedIndices(boxes) :
     Consecutive(boxes, i, j, pos) =>
       boxes[j][pos] >= boxes[i][pos] + boxes[i][size] - 5

ClassifiedAs(boxes) ==
  IF Cardinality(BoxedIndices(boxes)) < 2 THEN "complex"
  ELSE IF StackedAlong(boxes, "y", "height") THEN "vertical"
  ELSE IF StackedAlong(boxes, "x", "width") THEN "horizontal"
  ELSE "complex"

\* the overlap of child j over the child right before it along pos
OverlapBy(boxes, pos, size, d) ==
  \E i, j \in BoxedIndices(boxes) :
     /\ Consecutive(boxes, i, j, pos)
     /\ boxes[j][pos] = boxes[i][pos] + boxes[i][size] - d

\* C11: detectChildArrangement is complex with fewer than two boxed
\* children, else vertical iff every pair consecutive in y order satisfies
\* next.y >= current.y + current.height - 5, else horizontal iff the same
\* holds on x and width, else complex; so boxes stacked edge to edge are
\* vertical and boxes overlapping vertically by 20 are not.
C11_ArrangementClassification ==
  pc = "arranged" =>
    /\ out.arrangement = ClassifiedAs(RootBoxes)
    /\ OverlapBy(RootBoxes, "y", "height", 20) => out.arrangement # "vertical"
    /\ (/\ Cardinality(BoxedIndices(RootBoxes)) >= 2
        /\ \A i, j \in BoxedIndices(RootBoxes) :
              Consecutive(RootBoxes, i, j, "y") =>
                RootBoxes[j].y = RootBoxes[i].y + RootBoxes[i].height)
         => out.arrangement = "vertical"

\* three children within the 5px tolerance of each other, given in reverse
\* order, classified vertical
C11_Witness ==
  /\ pc = "arranged"
  /\ Len(RootBoxes) = 3
  /\ RootBoxes[1].y > RootBoxes[3].y
  /\ OverlapBy(RootBoxes, "y", "height", 0)
  /\ OverlapBy(RootBoxes, "y", "height", 3)
  /\ out.arrangement = "vertical"

\* --------------------------------------------------------------- C12, C13
PosOf(arrangement) == IF arrangement = "vertical" THEN "y" ELSE "x"
SizeOf(arrangement) == IF arrangement = "vertical" THEN "height" ELSE "width"

\* the boxed children in the order by pos
Ordered(boxes, pos) ==
  [r \in 1..Cardinality(BoxedIndices(boxes)) |->
     boxes[CHOOSE i \in BoxedIndices(boxes) :
             Cardinality({k \in BoxedIndices(boxes) : Before(boxes, k, i, pos)})
               = r - 1]]

\* next.start - current.end for each consecutive pair, the negative ones
\* discarded
AxisGaps(boxes, arrangement) ==
  LET o == Ordered(boxes, PosOf(arrangement))
      raw == [r \in 1..(Len(o) - 1) |->
                o[r + 1][PosOf(arrangement)]
                  - (o[r][PosOf(arrangement)] + o[r][SizeOf(arrangement)])]
  IN SelectSeq(raw, LAMBDA g : g >= 0)

RootArrangement == detectChildArrangement(RootBoxes)
RootGaps == AxisGaps(RootBoxes, RootArrangement)

\* C12: when the raw average of the gaps is above 200 calculateChildGaps
\* returns exactly 24, and its result is never negative and never above 200
\* (averageGap is held in hundredths).
C12_GapCap ==
  pc = "gaps" =>
    /\ (Len(RootGaps) > 0 /\ SumSeq(RootGaps) > 200 * Len(RootGaps))
         => out.averageGap = 2400
    /\ out.averageGap >= 0
    /\ out.averageGap <= 20000

\* twice the median of a sorted list: the middle sample, or the mean of the
\* two middle samples when the count is even
TwiceMedian(sorted) ==
  IF Len(sorted) % 2 = 1 THEN 2 * sorted[(Len(sorted) + 1) \div 2]
  ELSE sorted[Len(sorted) \div 2] + sorted[(Len(sorted) \div 2) + 1]

\* the gaps that are <= 2.5 x the median, or all of them when fewer than
\* half survive
Retained(gaps) ==
  LET kept == SelectSeq(gaps, LAMBDA g : 4 * g <= 5 * TwiceMedian(SortNum(gaps)))
  IN IF 2 * Len(kept) < Len(gaps) THEN gaps ELSE kept

\* the estimate of the claim, in hundredths
EstimatedGap(gaps) ==
  IF Len(gaps) = 0 THEN 0
  ELSE IF Len(gaps) = 1 THEN 100 * gaps[1]
  ELSE Round100(SumSeq(Retained(gaps)), Len(Retained(gaps)))

\* C13: negative gaps are discarded; no gap left gives 0, one gap gives that
\* gap, two or more give the rounded mean of the gaps <= 2.5 x the median
\* (the mean of the two middle samples for an even count), or of all gaps
\* when fewer than half survive. Stated for estimates the cap of 200 leaves
\* alone.
C13_GapEstimate ==
  (pc = "gaps" /\ EstimatedGap(RootGaps) <= 20000) =>
     out.averageGap = EstimatedGap(RootGaps)

\* --------------------------------------------------------------- C14, C15
CrossPos == IF RootArrangement = "vertical" THEN "x" ELSE "y"
CrossSize == IF RootArrangement = "vertical" THEN "width" ELSE "height"
ParentBox == figma[Root].absoluteBoundingBox

\* the child's centre is within 2px of the parent's centre (twice the
\* distance below 4), its near edge within 5px of the parent's, its far edge
\* within 5px of the parent's; a child counts in the first category it fits
Centred(b) ==
  Abs((2 * b[CrossPos] + b[CrossSize])
      - (2 * ParentBox[CrossPos] + ParentBox[CrossSize])) < 4

AtStart(b) == ~Centred(b) /\ Abs(b[CrossPos] - ParentBox[CrossPos]) < 5

AtEnd(b) ==
  /\ ~Centred(b) /\ ~AtStart(b)
  /\ Abs((b[CrossPos] + b[CrossSize])
         - (ParentBox[CrossPos] + ParentBox[CrossSize])) < 5

Total == Cardinality(BoxedIndices(RootBoxes))
CentredCount == Cardinality({i \in BoxedIndices(RootBoxes) : Centred(RootBoxes[i])})
StartCount == Cardinality({i \in BoxedIndices(RootBoxes) : AtStart(RootBoxes[i])})
EndCount == Cardinality({i \in BoxedIndices(RootBoxes) : AtEnd(RootBoxes[i])})

\* count >= total x threshold, threshold 0.6 from three children on, else 0.5
MeetsThreshold(count) ==
  IF Total >= 3 THEN 10 * count >= 6 * Total ELSE 2 * count >= Total

\* C14: alignItems is center whenever the centred children reach
\* total x threshold (3 of 3 and 2 of 3 both do); when they do not,
\* flex-start wins if the start count reaches it, then flex-end.
C14_AlignmentMajority ==
  pc = "aligned" =>
    /\ MeetsThreshold(CentredCount) => out.alignment.alignItems = "center"
    /\ (Total = 3 /\ CentredCount >= 2) => out.alignment.alignItems = "center"
    /\ (~MeetsThreshold(CentredCount) /\ MeetsThreshold(StartCount))
         => out.alignment.alignItems = "flex-start"
    /\ (/\ ~MeetsThreshold(CentredCount) /\ ~MeetsThreshold(StartCount)
        /\ MeetsThreshold(EndCount))
         => out.alignment.alignItems = "flex-end"

\* two of three children centred, the third at the near edge
C14_Witness ==
  /\ pc = "aligned"
  /\ Total = 3 /\ CentredCount = 2 /\ StartCount = 1
  /\ out.alignment.alignItems = "center"

NoCategoryMeets ==
  /\ ~MeetsThreshold(CentredCount)
  /\ ~MeetsThreshold(StartCount)
  /\ ~MeetsThreshold(EndCount)

\* the category with the largest raw count, ties resolved center > start > end
LargestCategory ==
  IF CentredCount >= StartCount /\ CentredCount >= EndCount THEN "center"
  ELSE IF StartCount >= EndCount THEN "flex-start"
  ELSE "flex-end"

\* C15: when no category reaches the threshold, alignItems is the category
\* with the largest raw count, a shared largest count going to center before
\* start before end; only when no child is in any category is the stretch
\* test reached.
C15_AlignmentTieBreak ==
  (pc = "aligned" /\ NoCategoryMeets /\ CentredCount + StartCount + EndCount > 0)
    => out.alignment.alignItems = LargestCategory

\* ------------------------------------------------------------------- C16
LeftGap == Ordered(RootBoxes, "x")[1].x - ParentBox.x
LastByX == Ordered(RootBoxes, "x")[Total]
RightGap == (ParentBox.x + ParentBox.width) - (LastByX.x + LastByX.width)

RECURSIVE SumWidths(_, _)
SumWidths(boxes, i) ==
  IF i > Len(boxes) THEN 0
  ELSE (IF boxes[i].defined THEN boxes[i].width ELSE 0) + SumWidths(boxes, i + 1)

\* |gap - (parentWidth - sum of widths)/(n+1)| < 10, cleared of the division
NearUniformGap(gap) ==
  Abs(gap * (Total + 1) - (ParentBox.width - SumWidths(RootBoxes, 1)))
    < 10 * (Total + 1)

\* C16: in a horizontal arrangement of two or more boxed children whose left
\* and right edge gaps are both within 10px of the uniform gap
\* (parentWidth - sum of child widths)/(n+1), justifyContent is space-between.
C16_SpaceBetween ==
  (/\ pc = "aligned" /\ RootArrangement = "horizontal" /\ Total >= 2
   /\ NearUniformGap(LeftGap) /\ NearUniformGap(RightGap))
    => (Has(out.alignment, "justifyContent")
        /\ out.alignment.justifyContent = "space-between")

\* ------------------------------------------------------------------- C17
\* the children's enclosing box
Least(S) == CHOOSE m \in S : \A x \in S : m <= x
Greatest(S) == CHOOSE m \in S : \A x \in S : m >= x
EnclosingLeft == Least({RootBoxes[i].x : i \in BoxedIndices(RootBoxes)})
EnclosingTop == Least({RootBoxes[i].y : i \in BoxedIndices(RootBoxes)})
EnclosingRight ==
  Greatest({RootBoxes[i].x + RootBoxes[i].width : i \in BoxedIndices(RootBoxes)})
EnclosingBottom ==
  Greatest({RootBoxes[i].y + RootBoxes[i].height : i \in BoxedIndices(RootBoxes)})

\* max(0, distance), in hundredths
Floored(distance) == IF distance < 0 THEN 0 ELSE 100 * distance

\* C17: each side of the estimated padding is max(0, distance from the
\* children's enclosing box to that parent edge), to 2 decimals; no side is
\* negative, also when children extend beyond the parent.
C17_PaddingEstimate ==
  pc = "padding" =>
    /\ out.padding.top = Floored(EnclosingTop - ParentBox.y)
    /\ out.padding.right
         = Floored((ParentBox.x + ParentBox.width) - EnclosingRight)
    /\ out.padding.bottom
         = Floored((ParentBox.y + ParentBox.height) - EnclosingBottom)
    /\ out.padding.left = Floored(EnclosingLeft - ParentBox.x)
    /\ \A side \in {"top", "right", "bottom", "left"} : out.padding[side] >= 0

\* children start above the parent and reach beyond its right edge, and stop
\* short of its bottom edge
C17_Witness ==
  /\ pc = "padding"
  /\ EnclosingTop < ParentBox.y
  /\ EnclosingRight > ParentBox.x + ParentBox.width
  /\ out.padding.top = 0 /\ out.padding.right = 0
  /\ out.padding.bottom > 0

\* ------------------------------------------------------------------- C18
\* the scenario: a parent (0,0,300,400) without declared auto-layout over
\* three children 280 wide and 80 high at x=10 and y=0,120,240, in any order
ScenarioFile ==
  /\ figma[Root].absoluteBoundingBox = Box(0, 0, 300, 400)
  /\ figma[Root].layoutMode \in {"undefined", "NONE"}
  /\ Len(RootBoxes) = 3
  /\ {RootBoxes[i] : i \in 1..3}
       = {Box(10, 0, 280, 80), Box(10, 120, 280, 80), Box(10, 240, 280, 80)}

\* C18: the scenario is parsed to strategy flexbox, direction column, gap 40,
\* alignItems center and justifyContent flex-start (topGap 0, bottomGap 80).
C18_StackedScenario ==
  (pc = "parsed" /\ ScenarioFile) =>
    /\ tree[Root].layout.strategy = "flexbox"
    /\ Has(tree[Root].layout, "flexDirection")
    /\ tree[Root].layout.flexDirection = "column"
    /\ Has(tree[Root].layout, "gap")
    /\ tree[Root].layout.gap = 4000
    /\ tree[Root].layout.alignItems = "center"
    /\ tree[Root].layout.justifyContent = "flex-start"

\* the scenario, parsed, with the children listed bottom-up
C18_Witness ==
  /\ pc = "parsed" /\ ScenarioFile
  /\ RootBoxes[1].y = 240
  /\ Len(tree[Root].children) = 3
  /\ tree[Root].layout.flexDirection = "column"

\* ------------------------------------------------------------------- C19
Decision == tree[Root].layout
Emitted == css[Root]

\* top, right, bottom, left of the decision, in hundredths
Sides ==
  <<Decision.padding.top, Decision.padding.right,
    Decision.padding.bottom, Decision.padding.left>>

\* the CSS shorthand rules: one value is all four sides, two values are
\* top/bottom and right/left, four values are top, right, bottom, left
Expand(values) ==
  IF Len(values) = 1 THEN <<values[1], values[1], values[1], values[1]>>
  ELSE IF Len(values) = 2 THEN <<values[1], values[2], values[1], values[2]>>
  ELSE values

RECURSIVE Written(_)
Written(values) ==
  IF Len(values) = 1 THEN ToString(values[1] \div 100) \o "px"
  ELSE ToString(values[1] \div 100) \o "px " \o Written(Tail(values))

\* the form the claim prescribes for the sides
Form ==
  IF Sides[1] = Sides[2] /\ Sides[2] = Sides[3] /\ Sides[3] = Sides[4]
  THEN <<Sides[1]>>
  ELSE IF Sides[1] = Sides[3] /\ Sides[4] = Sides[2]
  THEN <<Sides[1], Sides[2]>>
  ELSE Sides

SameOrAbsent(key) ==
  IF Has(Decision, key) THEN Has(Emitted, key) /\ Emitted[key] = Decision[key]
  ELSE ~Has(Emitted, key)

\* C19: a flexbox decision is emitted as display flex with the decision's
\* direction, a gap exactly when the decision's gap is above 0, alignItems
\* and justifyContent unchanged, and the padding in the 1-, 2- or 4-value
\* form that the symmetry of the sides prescribes and that expands to the
\* four sides; the padding is left out only when all four sides are 0.
C19_FlexboxEmission ==
  (pc = "transformed" /\ Decision.strategy = "flexbox") =>
    /\ Emitted.display = "flex"
    /\ Has(Decision, "flexDirection")
         => Emitted.flexDirection = Decision.flexDirection
    /\ Has(Emitted, "gap") <=> (Has(Decision, "gap") /\ Decision.gap > 0)
    /\ Has(Emitted, "gap") => Emitted.gap = Px(Decision.gap)
    /\ SameOrAbsent("alignItems") /\ SameOrAbsent("justifyContent")
    /\ Has(Decision, "padding") =>
         /\ \A i \in 1..4 : Sides[i] >= 0 /\ Sides[i] % 100 = 0
         /\ Expand(Form) = Sides
         /\ Has(Emitted, "padding") <=> Sides # <<0, 0, 0, 0>>
         /\ Has(Emitted, "padding") => Emitted.padding = Written(Form)
    /\ ~Has(Decision, "padding") => ~Has(Emitted, "padding")

\* a declared row with padding 4 6 4 6 and no spacing: the 2-value form and
\* no gap
C19_Witness ==
  /\ pc = "transformed" /\ Decision.strategy = "flexbox"
  /\ Decision.flexDirection = "row"
  /\ Sides = <<400, 600, 400, 600>>
  /\ Emitted.padding = "4px 6px"
  /\ ~Has(Emitted, "gap")

\* ------------------------------------------------------------------- C20
\* parent and child in the tree that was transformed
Edges ==
  {e \in (DOMAIN tree) \X (DOMAIN tree) :
     /\ e[1] \in {Root} \cup Descendants(tree, Root)
     /\ e[2] \in ChildSet(tree, e[1])
     /\ Occurrences(tree, e[2]) = 1}

AbsoluteChild(p, n) == EffectiveStrategy(tree[n], TRUE, tree[p]) = "absolute"
AbsoluteRoot == EffectiveStrategy(tree[Root], FALSE, NoParent) = "absolute"

ParentBoxed(p) == Has(tree[p].layout, "position")

OffsetX(p, n) == tree[n].layout.position.x - tree[p].layout.position.x
OffsetY(p, n) == tree[n].layout.position.y - tree[p].layout.position.y

Pixels(d) == ToString(d) \o "px"

Is(n, key, value) == Has(css[n], key) /\ css[n][key] = value

\* left 50% plus translateX(-50%), alone or followed by a vertical translate
CentringReplacement(n) ==
  /\ Is(n, "left", "50%")
  /\ Has(css[n], "transform")
  /\ css[n].transform \in {"translateX(-50%)", "translateX(-50%) translateY(-50%)"}

KeepsLeft(n) ==
  Has(tree[n].layout, "constraints")
    => tree[n].layout.constraints.horizontal \in {"LEFT", "SCALE"}

KeepsTop(n) ==
  Has(tree[n].layout, "constraints")
    => tree[n].layout.constraints.vertical \in {"TOP", "SCALE"}

C21_AbsolutePositionConversion ==
  pc = "transformed" =>
    \A e \in Edges :
      (/\ tree[e[1]].layout.strategy = "absolute"
       /\ Has(tree[e[2]].layout, "position"))
        => /\ Is(e[2], "position", "absolute")
           /\ Is(e[2], "left", Pixels(OffsetX(e[1], e[2])))
           /\ Is(e[2], "top", Pixels(OffsetY(e[1], e[2])))

\* ------------------------------------------------------------------- C22
Horizontals == {"LEFT", "RIGHT", "CENTER", "LEFT_RIGHT", "SCALE"}
Verticals == {"TOP", "BOTTOM", "CENTER", "TOP_BOTTOM", "SCALE"}

\* the nodes that were emitted with constraints, each with its parent (the
\* root with itself)
ConstrainedEdges ==
  {e \in Edges \cup {<<Root, Root>>} : Has(tree[e[2]].layout, "constraints")}

\* what the emitter gives for the node of e when its constraints are h and v
EmittedWith(e, h, v) ==
  generateLayoutCSS(
    [tree[e[2]] EXCEPT !.layout.constraints = [horizontal |-> h, vertical |-> v]],
    e[2] # Root, IF e[2] # Root THEN tree[e[1]] ELSE NoParent)

\* what it gives for the node without its constraints
EmittedUnconstrained(e) ==
  generateLayoutCSS([tree[e[2]] EXCEPT !.layout = Delete(@, "constraints")],
                    e[2] # Root, IF e[2] # Root THEN tree[e[1]] ELSE NoParent)

Field(c, key) == IF Has(c, key) THEN c[key] ELSE "absent"

HorizontalTranslate(c) ==
  IF Has(c, "transform")
     /\ c.transform \in {"translateX(-50%)", "translateX(-50%) translateY(-50%)"}
  THEN "translateX(-50%)" ELSE "absent"

HorizontalPart(c) ==
  <<Field(c, "left"), Field(c, "right"), Field(c, "width"), HorizontalTranslate(c)>>

VerticalPart(c) == <<Field(c, "top"), Field(c, "bottom"), Field(c, "height")>>

OwnHorizontal(e) == tree[e[2]].layout.constraints.horizontal
OwnVertical(e) == tree[e[2]].layout.constraints.vertical

\* C22: the constraint overrides act on the finished layout CSS; RIGHT leaves
\* no left, BOTTOM no top, LEFT_RIGHT no width, TOP_BOTTOM no height; the
\* emitted left, right, width and horizontal translate do not depend on the
\* vertical constraint, nor top, bottom and height on the horizontal one.
C22_ConstraintOverrides ==
  pc = "transformed" =>
    \A e \in ConstrainedEdges :
      /\ css[e[2]] = applyConstraints(EmittedUnconstrained(e),
                                      tree[e[2]].layout.constraints)
      /\ OwnHorizontal(e) = "RIGHT" => ~Has(css[e[2]], "left")
      /\ OwnVertical(e) = "BOTTOM" => ~Has(css[e[2]], "top")
      /\ OwnHorizontal(e) = "LEFT_RIGHT" => ~Has(css[e[2]], "width")
      /\ OwnVertical(e) = "TOP_BOTTOM" => ~Has(css[e[2]], "height")
      /\ \A v \in Verticals :
           HorizontalPart(EmittedWith(e, OwnHorizontal(e), v))
             = HorizontalPart(css[e[2]])
      /\ \A h \in Horizontals :
           VerticalPart(EmittedWith(e, h, OwnVertical(e)))
             = VerticalPart(css[e[2]])

\* a centred decorative child constrained RIGHT and CENTER: the horizontal
\* translate of the centring stands next to the vertical one, and left is gone
C22_Witness ==
  /\ pc = "transformed"
  /\ \E e \in ConstrainedEdges :
       /\ e[2] # Root
       /\ OwnHorizontal(e) = "RIGHT" /\ OwnVertical(e) = "CENTER"
       /\ Is(e[2], "transform", "translateX(-50%) translateY(-50%)")
       /\ Is(e[2], "right", "0") /\ Is(e[2], "top", "50%")
       /\ ~Has(css[e[2]], "left")

\* ------------------------------------------------------------------- C23
\* C23: a node whose bounding box is missing is parsed to a zero-size leaf
\* with the static strategy.
C23_MissingBoxIsStaticLeaf ==
  pc = "parsed" =>
    \A n \in DOMAIN figma :
      ~figma[n].absoluteBoundingBox.defined
        => /\ prev[n].bounds = ZeroBounds
           /\ prev[n].children = <<>>
           /\ prev[n].layout.strategy = "static"

\* ------------------------------------------------------------------- C24
Count(seq, e) == Cardinality({i \in DOMAIN seq : seq[i] = e})

SameDiagnostics(a, b) == \A e \in Elems(a) \cup Elems(b) : Count(a, e) = Count(b, e)

\* C24: the warnings and README errors returned for a conversion are exactly
\* the diagnostics produced while processing that conversion, whatever other
\* requests ran in between.
C24_DiagnosticsScoped ==
  \A r \in DOMAIN requests :
    requests[r].status = 200 =>
      /\ SameDiagnostics(requests[r].allWarnings, requests[r].producedWarnings)
      /\ SameDiagnostics(requests[r].readmeErrors, requests[r].producedErrors)

\* ------------------------------------------------------------------- C25
\* C25: the frames of all pages of the document appear as elements of the
\* generated HTML.
C25_AllPagesRendered ==
  Has(out, "html") =>
    \A p \in 1..Len(transformedNode.children) :
      \A f \in 1..Len(transformedNode.children[p].children) :
        transformedNode.children[p].children[f].id \in Elems(out.html)

\* C26: in the lines of one rule, the declarations whose property is in
\* the order list come in the order of that list and before every
\* property outside the list; the properties outside the list follow in
\* alphabetical order of their keys; every declaration of the styles is
\* written exactly once, under its kebab-case name and with its value.
Listed(key) == \E i \in DOMAIN propertyOrder : propertyOrder[i] = key

ListPlace(key) == CHOOSE i \in DOMAIN propertyOrder : propertyOrder[i] = key

AlphabetPlace(key) == CHOOSE i \in DOMAIN Alphabetical : Alphabetical[i] = key

KebabName(key) ==
  IF Len(key) = 1 THEN key[1] ELSE key[1] \o "-" \o key[2]

\* the place in the written lines of the declaration entered k-th
LineOf(k) ==
  CHOOSE i \in DOMAIN out.css :
    /\ out.css[i].property = KebabName(declarations[k][1])
    /\ out.css[i].value = declarations[k][2]

WrittenOnce(k) ==
  Cardinality({i \in DOMAIN out.css :
                 out.css[i].property = KebabName(declarations[k][1])}) = 1
  /\ \E i \in DOMAIN out.css :
       /\ out.css[i].property = KebabName(declarations[k][1])
       /\ out.css[i].value = declarations[k][2]

ComesFirst(a, b) ==
  IF Listed(a) /\ Listed(b) THEN ListPlace(a) < ListPlace(b)
  ELSE IF Listed(a) THEN TRUE
  ELSE IF Listed(b) THEN FALSE
  ELSE AlphabetPlace(a) < AlphabetPlace(b)

C26_DeclarationOrder ==
  ("css" \in DOMAIN out /\ declarations # <<>>) =>
    /\ Len(out.css) = Len(declarations)
    /\ \A k \in DOMAIN declarations : WrittenOnce(k)
    /\ \A j, k \in DOMAIN declarations :
         (WrittenOnce(j) /\ WrittenOnce(k)
            /\ ComesFirst(declarations[j][1], declarations[k][1]))
           => LineOf(j) < LineOf(k)

\* a rule written from styles entered as order, width, boxSizing
C26_Witness ==
  /\ "css" \in DOMAIN out
  /\ declarations = <<(<<(<<"order">>), 1>>), <<(<<"width">>), 2>>,
                      <<(<<"box", "sizing">>), 3>>>>
  /\ out.css = <<[property |-> "width", value |-> 2],
                 [property |-> "box-sizing", value |-> 3],
                 [property |-> "order", value |-> 1]>>

\* C27: retryRequest invokes the request function at most 3 times; after
\* a 4xx other than 429 or an error that is not an axios error no further
\* attempt is made and that error is thrown; a further attempt follows
\* only a 5xx, a 429 or an error without response, and only after the
\* backoff delay of the failed attempt; a call that returned returns the
\* response of its last attempt, and a call that threw throws the error
\* of its last attempt.
Retryable(o) ==
  ~o.ok /\ o.axios /\ (o.status >= 500 \/ o.status = 429 \/ o.status = 0)

Final(o) ==
  ~o.ok /\ (~o.axios \/ (o.status >= 400 /\ o.status < 500 /\ o.status # 429))

Backoff(i) == 2 ^ (i - 1) * 1000

C27_RetryProtocol ==
  retry # <<>> =>
    /\ Len(retry.calls) <= 3
    /\ \A i \in DOMAIN retry.calls :
         /\ Final(retry.calls[i]) =>
              (i = Len(retry.calls) /\ retry.pc = "thrown"
                 /\ retry.lastError = i)
         /\ i < Len(retry.calls) =>
              (Retryable(retry.calls[i]) /\ i \in DOMAIN retry.slept
                 /\ retry.slept[i] >= Backoff(i))
    /\ retry.pc = "returned" =>
         (retry.calls[Len(retry.calls)].ok /\ retry.result = Len(retry.calls))
    /\ retry.pc = "thrown" =>
         (~retry.calls[Len(retry.calls)].ok
            /\ retry.lastError = Len(retry.calls))

\* C28: the ZIP that a successful conversion stored is what a download of
\* its id returns until the entry is an hour old, and downloading does
\* not remove it; the sweep leaves every entry that is not more than one
\* hour old and removes every entry that is; a download of an id that is
\* not in the cache answers 404.
Succeeded(r) == r \in DOMAIN requests /\ requests[r].status = 200

StoredAt(r) == requests[r].downloadUrl[2]

Cached(r) ==
  /\ Has(conversionCache, requests[r].downloadUrl)
  /\ conversionCache[requests[r].downloadUrl].zip = r

C28_CacheLifecycle ==
  /\ \A r \in DOMAIN requests :
       (Succeeded(r) /\ clock - StoredAt(r) <= MaxAge) => Cached(r)
  /\ \A id \in DOMAIN conversionCache :
       clock - conversionCache[id].timestamp <= MaxAge + SweepEvery
  /\ ("status" \in DOMAIN out /\ out.status = 200) =>
       (\E r \in DOMAIN requests :
          Succeeded(r) /\ requests[r].downloadUrl = out.id /\ out.zip = r)

\* C29: with two or more gap samples the outlier filter of
\* calculateChildGaps keeps more than half of them, the smallest among
\* them, and the result is the mean of the kept samples, never of all.
UpperMiddle(gaps) == SortNum(gaps)[(Len(gaps) \div 2) + 1]

KeptGaps(gaps) == SelectSeq(gaps, LAMBDA g : 2 * g <= 5 * UpperMiddle(gaps))

Smallest(gaps) == SortNum(gaps)[1]

MeanOfKeptGaps(gaps) == Round100(SumSeq(KeptGaps(gaps)), Len(KeptGaps(gaps)))

C29_FilterKeepsMajority ==
  (pc = "gaps" /\ Len(RootGaps) >= 2) =>
    /\ 2 * Len(KeptGaps(RootGaps)) > Len(RootGaps)
    /\ \E i \in DOMAIN KeptGaps(RootGaps) : KeptGaps(RootGaps)[i] = Smallest(RootGaps)
    /\ out.averageGap =
         (IF MeanOfKeptGaps(RootGaps) > 20000 THEN 2400 ELSE MeanOfKeptGaps(RootGaps))

\* three gaps of 40, 250 and 20: the 250 is dropped, the mean is 30
C29_Witness ==
  /\ pc = "gaps"
  /\ RootGaps = <<40, 250, 20>>
  /\ Len(KeptGaps(RootGaps)) = 2
  /\ out.averageGap = 3000

\* C30: in the tree that parse returns no decision has the Grid strategy;
\* a decision is Flexbox exactly when its direction (row or column) is
\* set; gap, padding, alignItems and justifyContent occur only on Flexbox
\* decisions; a Static decision belongs to a node that had no children
\* in the file or has no bounding box.
FlexOnly == {"gap", "padding", "alignItems", "justifyContent"}

DirectionSet(l) == Has(l, "flexDirection") /\ l.flexDirection \in {"row", "column"}

WellFormed(n) ==
  /\ tree[n].layout.strategy \in {"flexbox", "absolute", "static"}
  /\ (tree[n].layout.strategy = "flexbox") <=> DirectionSet(tree[n].layout)
  /\ Has(tree[n].layout, "flexDirection") => DirectionSet(tree[n].layout)
  /\ \A k \in FlexOnly :
       Has(tree[n].layout, k) => tree[n].layout.strategy = "flexbox"
  /\ tree[n].layout.strategy = "static" =>
       (figma[n].children = <<>> \/ ~figma[n].absoluteBoundingBox.defined)

====
